---- MODULE Spec2Model ----
(***************************************************************************)
(* A model of the line-delimited JSON-RPC tool server of mcp-bun-fetch:    *)
(* McpServer (src/src/mcp.ts) with its registry, its read loop start(),    *)
(* the dispatcher handleMessage, the tool invoker handleToolCall and the   *)
(* writer send/respond/respondError.                                       *)
(*                                                                         *)
(* Text is a sequence of fragments.  A fragment is a newline, a carriage   *)
(* return, a space, or a piece of JSON text cut at a token boundary, so    *)
(* that a document is made of several fragments and a chunk of the input   *)
(* stream may end in the middle of a document.                             *)
(***************************************************************************)
EXTENDS Integers, Sequences, FiniteSets, TLC

(***************************************************************************)
(* Bounds of the model.                                                    *)
(***************************************************************************)
\* registrations made before start()
MaxTools == 3
\* fragments delivered by one chunk of the input stream
MaxChunk == 2
\* newline-terminated lines on the input of the read-loop specification
MaxLines == 2

(***************************************************************************)
(* JavaScript values.  A scalar is [type, val] with val its text; an       *)
(* object carries its own members.                                         *)
(***************************************************************************)
Undefined == [type |-> "undefined", val |-> ""]
Null == [type |-> "null", val |-> ""]
Num(n) == [type |-> "number", val |-> n]
Str(s) == [type |-> "string", val |-> s]
\* new Error(m)
Err(m) == [type |-> "Error", val |-> m]
\* an arguments object: member name -> value
Obj(props) == [type |-> "object", props |-> props]
EmptyObject == Obj([k \in {} |-> Undefined])

\* String(v) and `${v}` for the scalars of the model
ToStr(v) ==
  CASE v.type = "undefined" -> "undefined"
    [] v.type = "null" -> "null"
    [] OTHER -> v.val

(***************************************************************************)
(* JsonRpcError (src/src/mcp.ts:5-11)                                      *)
(***************************************************************************)
PARSE_ERROR == -32700
INVALID_REQUEST == -32600
METHOD_NOT_FOUND == -32601
INVALID_PARAMS == -32602
INTERNAL_ERROR == -32603

(***************************************************************************)
(* The fragments of input text.                                            *)
(***************************************************************************)
NL == "\n"
CR == "\r"
SP == " "

\* the opening of an object, up to and including its id member
HeadNoId == "{"
HeadId0 == "{\"id\":0,"
HeadIdStr0 == "{\"id\":\"0\","
HeadIdEmpty == "{\"id\":\"\","
HeadIdNull == "{\"id\":null,"
Heads == {HeadNoId, HeadId0, HeadIdStr0, HeadIdEmpty, HeadIdNull}

\* the rest of the object: method and params
TailInit == "\"method\":\"initialize\"}"
TailList == "\"method\":\"tools/list\"}"
TailListCase == "\"method\":\"Tools/List\"}"
TailNoMethod == "\"params\":{}}"
TailMethodNumber == "\"method\":5}"
TailCall == "\"method\":\"tools/call\"}"
TailCallEcho == "\"method\":\"tools/call\",\"params\":{\"name\":\"echo\"}}"
TailCallEchoEmpty == "\"method\":\"tools/call\",\"params\":{\"name\":\"echo\",\"arguments\":{}}}"
TailCallEchoHi == "\"method\":\"tools/call\",\"params\":{\"name\":\"echo\",\"arguments\":{\"message\":\"hi\"}}}"
TailCallEcho5 == "\"method\":\"tools/call\",\"params\":{\"name\":\"echo\",\"arguments\":{\"message\":5}}}"
TailCallEchoExtra == "\"method\":\"tools/call\",\"params\":{\"name\":\"echo\",\"arguments\":{\"message\":\"hi\",\"extra\":1}}}"
TailCallEchoActive == "\"method\":\"tools/call\",\"params\":{\"name\":\"echo\",\"arguments\":{\"status\":\"active\"}}}"
TailCallEchoInvalid == "\"method\":\"tools/call\",\"params\":{\"name\":\"echo\",\"arguments\":{\"status\":\"invalid\"}}}"
TailCallEchoCount5 == "\"method\":\"tools/call\",\"params\":{\"name\":\"echo\",\"arguments\":{\"count\":5}}}"
TailCallEchoCount150 == "\"method\":\"tools/call\",\"params\":{\"name\":\"echo\",\"arguments\":{\"count\":150}}}"
TailCallEchoStr == "\"method\":\"tools/call\",\"params\":{\"name\":\"echo\",\"arguments\":\"hi\"}}"
TailCallEchoNull == "\"method\":\"tools/call\",\"params\":{\"name\":\"echo\",\"arguments\":null}}"
TailCallParamsStr == "\"method\":\"tools/call\",\"params\":\"echo\"}"
\* calls of the fetch tool
TailCallFetch == "\"method\":\"tools/call\",\"params\":{\"name\":\"fetch\",\"arguments\":{\"url\":\"https://example.com\",\"prompt\":\"Read\"}}}"
TailCallFetchNoPrompt == "\"method\":\"tools/call\",\"params\":{\"name\":\"fetch\",\"arguments\":{\"url\":\"https://example.com\"}}}"
TailCallFetchNoUrl == "\"method\":\"tools/call\",\"params\":{\"name\":\"fetch\",\"arguments\":{\"prompt\":\"Read\"}}}"
FetchTails == {TailCallFetch, TailCallFetchNoPrompt, TailCallFetchNoUrl}

CallTails == {TailCall, TailCallEcho, TailCallEchoEmpty, TailCallEchoHi, TailCallEcho5,
              TailCallEchoExtra, TailCallEchoActive, TailCallEchoInvalid, TailCallEchoCount5,
              TailCallEchoCount150, TailCallEchoStr, TailCallEchoNull, TailCallParamsStr}
Tails == {TailInit, TailList, TailListCase, TailNoMethod, TailMethodNumber} \cup CallTails
           \cup FetchTails

\* whole documents that are not objects
DocNull == "null"
DocNumber == "5"
DocArray == "[]"
ScalarDocs == {DocNull, DocNumber, DocArray}

\* the id member a head carries
HeadId(h) ==
  CASE h = HeadId0 -> Num("0")
    [] h = HeadIdStr0 -> Str("0")
    [] h = HeadIdEmpty -> Str("")
    [] h = HeadIdNull -> Null
    [] OTHER -> Undefined

\* the method member a tail carries
TailMethod(t) ==
  CASE t = TailInit -> Str("initialize")
    [] t = TailList -> Str("tools/list")
    [] t = TailListCase -> Str("Tools/List")
    [] t = TailMethodNumber -> Num("5")
    [] t \in CallTails \cup FetchTails -> Str("tools/call")
    [] OTHER -> Undefined

\* the arguments member of the params a tail carries
TailArguments(t) ==
  CASE t = TailCallEchoEmpty -> EmptyObject
    [] t = TailCallEchoHi -> Obj([k \in {"message"} |-> Str("hi")])
    [] t = TailCallEcho5 -> Obj([k \in {"message"} |-> Num("5")])
    [] t = TailCallEchoExtra ->
         Obj([k \in {"message", "extra"} |-> IF k = "message" THEN Str("hi") ELSE Num("1")])
    [] t = TailCallEchoActive -> Obj([k \in {"status"} |-> Str("active")])
    [] t = TailCallEchoInvalid -> Obj([k \in {"status"} |-> Str("invalid")])
    [] t = TailCallEchoCount5 -> Obj([k \in {"count"} |-> Num("5")])
    [] t = TailCallEchoCount150 -> Obj([k \in {"count"} |-> Num("150")])
    [] t = TailCallEchoStr -> Str("hi")
    [] t = TailCallEchoNull -> Null
    [] t = TailCallFetch ->
         Obj([k \in {"url", "prompt"} |->
                IF k = "url" THEN Str("https://example.com") ELSE Str("Read")])
    [] t = TailCallFetchNoPrompt -> Obj([k \in {"url"} |-> Str("https://example.com")])
    [] t = TailCallFetchNoUrl -> Obj([k \in {"prompt"} |-> Str("Read")])
    [] OTHER -> Undefined

\* the params member a tail carries
TailParams(t) ==
  CASE t = TailNoMethod -> [type |-> "object", name |-> Undefined, arguments |-> Undefined]
    [] t = TailCallParamsStr -> Str("echo")
    [] t \in CallTails \ {TailCall} ->
         [type |-> "object", name |-> Str("echo"), arguments |-> TailArguments(t)]
    [] t \in FetchTails ->
         [type |-> "object", name |-> Str("fetch"), arguments |-> TailArguments(t)]
    [] OTHER -> Undefined

\* JSON whitespace inside a line (a line holds no newline)
IsWhitespace(c) == c \in {SP, CR}

\* JSON.parse(line): [ok |-> FALSE] stands for the SyntaxError it throws
JsonParse(line) ==
  LET toks == SelectSeq(line, LAMBDA c : ~IsWhitespace(c))
  IN  IF Len(toks) = 2 /\ toks[1] \in Heads /\ toks[2] \in Tails
      THEN [ok |-> TRUE,
            value |-> [type |-> "object", id |-> HeadId(toks[1]),
                       method |-> TailMethod(toks[2]), params |-> TailParams(toks[2])]]
      ELSE IF Len(toks) = 1 /\ toks[1] \in ScalarDocs
      THEN [ok |-> TRUE,
            value |-> [type |-> CASE toks[1] = DocNull -> "null"
                                  [] toks[1] = DocNumber -> "number"
                                  [] OTHER -> "array"]]
      ELSE [ok |-> FALSE]

(***************************************************************************)
(* Schemas.  A schema z.object({...}) is its shape: member name -> the     *)
(* validator of that member.  "string" is z.string(), "enum" is            *)
(* z.enum(["active", "inactive"]), "range" is z.number().min(1).max(100),  *)
(* and "date" is z.date(), which no value read from JSON satisfies and     *)
(* which has no JSON Schema rendering.                                     *)
(***************************************************************************)
SchemaEmpty == [k \in {} |-> "string"]
SchemaMessage == [k \in {"message"} |-> "string"]
SchemaStatus == [k \in {"status"} |-> "enum"]
SchemaCount == [k \in {"count"} |-> "range"]
SchemaDate == [k \in {"when"} |-> "date"]
\* the schema of the fetch tool (src/index.ts:15-20)
\* a schema of the fetch tool that asks for the url only
SchemaFetchUrlOnly == [k \in {"url"} |-> "string"]

SchemaFetch == [k \in {"url", "prompt"} |-> "string"]

\* the number a number of the model stands for
NumberValue(v) ==
  CASE v.val = "0" -> 0 [] v.val = "1" -> 1 [] v.val = "5" -> 5 [] v.val = "150" -> 150

\* whether a member validator accepts a value read from JSON
Accepts(validator, v) ==
  CASE validator = "string" -> v.type = "string"
    [] validator = "enum" -> v.type = "string" /\ v.val \in {"active", "inactive"}
    [] validator = "range" ->
         v.type = "number" /\ NumberValue(v) >= 1 /\ NumberValue(v) <= 100
    [] OTHER -> FALSE

\* the JSON Schema of a member validator
MemberSchema(validator) ==
  CASE validator = "enum" -> [type |-> "string", enum |-> <<"active", "inactive">>]
    [] validator = "range" -> [type |-> "number", minimum |-> 1, maximum |-> 100]
    [] OTHER -> [type |-> "string"]

\* the description of a failed validation (parseResult.error.message)
ZodMessage(schema, raw) ==
  IF raw.type # "object"
  THEN <<"Invalid input: expected object">>
  ELSE <<"Invalid input", CHOOSE k \in DOMAIN schema :
                            ~(k \in DOMAIN raw.props /\ Accepts(schema[k], raw.props[k]))>>

\* safeParse that checks that the members are present, not what they are
safeParsePresenceOnly(schema, raw) ==
  IF /\ raw.type = "object"
     /\ \A k \in DOMAIN schema : k \in DOMAIN raw.props
  THEN [success |-> TRUE, data |-> Obj([k \in DOMAIN schema |-> raw.props[k]])]
  ELSE [success |-> FALSE, message |-> ZodMessage(schema, raw)]

\* tool.schema.safeParse(rawArgs): the members of the shape are required,
\* members the shape does not name are stripped from the data
safeParse(schema, raw) ==
  IF /\ raw.type = "object"
     /\ \A k \in DOMAIN schema : k \in DOMAIN raw.props /\ Accepts(schema[k], raw.props[k])
  THEN [success |-> TRUE, data |-> Obj([k \in DOMAIN schema |-> raw.props[k]])]
  ELSE [success |-> FALSE, message |-> ZodMessage(schema, raw)]

\* toJSONSchema(schema): [ok |-> FALSE] stands for the error it throws for a
\* validator that JSON Schema cannot represent
toJSONSchema(schema) ==
  IF \E k \in DOMAIN schema : schema[k] = "date"
  THEN [ok |-> FALSE]
  ELSE [ok |-> TRUE,
        value |-> [type |-> "object",
                   properties |-> [k \in DOMAIN schema |-> MemberSchema(schema[k])],
                   required |-> DOMAIN schema]]

(***************************************************************************)
(* The registry: a Map, kept as the sequence of its entries in insertion   *)
(* order.                                                                  *)
(***************************************************************************)
ToolNames == {"echo", "strict"}
StoredTools ==
  { [description |-> "Echo tool", schema |-> SchemaMessage, handler |-> "h1"],
    [description |-> "No args tool", schema |-> SchemaEmpty, handler |-> "h2"],
    [description |-> "Enum tool", schema |-> SchemaStatus, handler |-> "h4"],
    [description |-> "Number tool", schema |-> SchemaCount, handler |-> "h5"],
    [description |-> "Date tool", schema |-> SchemaDate, handler |-> "h3"] }

MapHas(m, k) == \E i \in 1..Len(m) : m[i].name = k
MapGet(m, k) == m[CHOOSE i \in 1..Len(m) : m[i].name = k].tool
\* a registry kept as a log: every registration adds an entry
MapSetAppends(m, k, v) == Append(m, [name |-> k, tool |-> v])

\* a registry in which the first registration of a name wins
MapSetKeepsFirst(m, k, v) == IF MapHas(m, k) THEN m ELSE Append(m, [name |-> k, tool |-> v])

\* Map.set: a key already present keeps its place and gets the new value
MapSet(m, k, v) ==
  IF MapHas(m, k)
  THEN [i \in 1..Len(m) |-> IF m[i].name = k THEN [name |-> k, tool |-> v] ELSE m[i]]
  ELSE Append(m, [name |-> k, tool |-> v])

(***************************************************************************)
(* The writer (src/src/mcp.ts:93-103).  An output line is the object that  *)
(* JSON.stringify serialises: members whose value is undefined are left    *)
(* out.                                                                    *)
(***************************************************************************)
Stringify(msg) == [k \in {j \in DOMAIN msg : msg[j] # Undefined} |-> msg[k]]

send(msg) == Stringify(msg)

respond(id, result) == send([jsonrpc |-> Str("2.0"), id |-> id, result |-> result])

\* respondError that also writes a null result member
respondErrorWithNullResult(id, code, message) ==
  send([jsonrpc |-> Str("2.0"), id |-> id, result |-> Null,
        error |-> [code |-> code, message |-> message]])

respondError(id, code, message) ==
  send([jsonrpc |-> Str("2.0"), id |-> id, error |-> [code |-> code, message |-> message]])

(***************************************************************************)
(* The dispatcher and the tool invoker, up to the point where a handler is *)
(* called.  The outcome is one of                                          *)
(*   [kind |-> "done", lines]    returned, having written lines            *)
(*   [kind |-> "throw"]          an exception left handleMessage           *)
(*   [kind |-> "invoke", ...]    the handler was called and is awaited     *)
(***************************************************************************)
Returned(ls) == [kind |-> "done", lines |-> ls]
Thrown == [kind |-> "throw"]

\* params?.name and params?.arguments
Member(params, k) ==
  IF params.type = "object"
  THEN (IF k = "name" THEN params.name ELSE params.arguments)
  ELSE Undefined

\* a ?? b that never takes the default
CoalesceNever(a, b) == a

\* a ?? b
Coalesce(a, b) == IF a.type \in {"undefined", "null"} THEN b ELSE a

\* the failed lookup reported with the code of a validation failure
UnknownToolAsInvalidParams(id, toolName) ==
  Returned(<<respondError(id, INVALID_PARAMS, <<"Unknown tool: ", ToStr(toolName)>>)>>)

\* if (!tool): the lookup failed
UnknownTool(id, toolName) ==
  Returned(<<respondError(id, METHOD_NOT_FOUND, <<"Unknown tool: ", ToStr(toolName)>>)>>)

\* if (!parseResult.success): the arguments failed the schema
InvalidParams(id, parseResult) ==
  Returned(<<respondError(id, INVALID_PARAMS, parseResult.message)>>)

\* this.tools.get(toolName) found a tool: only a string is a key of the Map
Registered(reg, toolName) == toolName.type = "string" /\ MapHas(reg, toolName.val)

\* a tool call that hands the arguments to the handler without validating them
handleToolCallUnvalidated(reg, id, params) ==
  LET toolName == Member(params, "name")
      rawArgs == Coalesce(Member(params, "arguments"), EmptyObject)
  IN  IF ~Registered(reg, toolName)
      THEN UnknownTool(id, toolName)
      ELSE [kind |-> "invoke", id |-> id, name |-> toolName.val,
            handler |-> MapGet(reg, toolName.val).handler, args |-> rawArgs]

\* handleToolCall (src/src/mcp.ts:141-168), up to the call of the handler
handleToolCall(reg, id, params) ==
  LET toolName == Member(params, "name")
      rawArgs == Coalesce(Member(params, "arguments"), EmptyObject)
  IN  IF ~Registered(reg, toolName)
      THEN UnknownTool(id, toolName)
      ELSE LET tool == MapGet(reg, toolName.val)
               parseResult == safeParse(tool.schema, rawArgs)
           IN  IF ~parseResult.success
               THEN InvalidParams(id, parseResult)
               ELSE [kind |-> "invoke", id |-> id, name |-> toolName.val,
                     handler |-> tool.handler, args |-> parseResult.data]

\* an initialize result that names the server by a fixed name
InitializeResultFixedName(info) ==
  [protocolVersion |-> "2024-11-05",
   capabilities |-> [tools |-> EmptyObject],
   serverInfo |-> [name |-> "bun-fetch", version |-> info.version]]

\* the result of "initialize"
InitializeResult(info) ==
  [protocolVersion |-> "2024-11-05",
   capabilities |-> [tools |-> EmptyObject],
   serverInfo |-> [name |-> info.name, version |-> info.version]]

\* the result of "tools/list"
ToolsListResult(reg) ==
  [tools |-> [i \in 1..Len(reg) |->
                [name |-> reg[i].name,
                 description |-> reg[i].tool.description,
                 inputSchema |-> toJSONSchema(reg[i].tool.schema).value]]]

\* a default case that reports a request without a method as invalid
MethodNotFoundOrInvalid(id, method) ==
  IF method = Undefined
  THEN Returned(<<respondError(id, INVALID_REQUEST, <<"Invalid Request">>)>>)
  ELSE Returned(<<respondError(id, METHOD_NOT_FOUND, <<"Method not found: ", ToStr(method)>>)>>)

\* default: no case of the switch matches the method
MethodNotFound(id, method) ==
  Returned(<<respondError(id, METHOD_NOT_FOUND, <<"Method not found: ", ToStr(method)>>)>>)

\* a switch that compares the method without regard to case
RouteIgnoringCase(reg, info, id, method, params) ==
  CASE method = Str("initialize") -> Returned(<<respond(id, InitializeResult(info))>>)
    [] method \in {Str("tools/list"), Str("Tools/List")} ->
         IF \E i \in 1..Len(reg) : ~toJSONSchema(reg[i].tool.schema).ok
         THEN Thrown
         ELSE Returned(<<respond(id, ToolsListResult(reg))>>)
    [] method = Str("tools/call") -> handleToolCall(reg, id, params)
    [] OTHER -> MethodNotFound(id, method)

\* switch (method)
Route(reg, info, id, method, params) ==
  CASE method = Str("initialize") -> Returned(<<respond(id, InitializeResult(info))>>)
    [] method = Str("tools/list") ->
         IF \E i \in 1..Len(reg) : ~toJSONSchema(reg[i].tool.schema).ok
         THEN Thrown
         ELSE Returned(<<respond(id, ToolsListResult(reg))>>)
    [] method = Str("tools/call") -> handleToolCall(reg, id, params)
    [] OTHER -> MethodNotFound(id, method)

\* const { id, method, params } = msg: a member of a value that is not an
\* object reads as undefined
Field(msg, k) ==
  IF msg.type = "object"
  THEN (CASE k = "id" -> msg.id [] k = "method" -> msg.method [] OTHER -> msg.params)
  ELSE Undefined

\* handleMessage without the early return for a message that has no id
handleMessageAnswersAll(reg, info, msg) ==
  IF msg.type = "null"
  THEN Thrown
  ELSE Route(reg, info, Field(msg, "id"), Field(msg, "method"), Field(msg, "params"))

handleMessage(reg, info, msg) ==
  IF msg.type = "null"
  THEN Thrown    \* destructuring null throws a TypeError
  ELSE IF Field(msg, "id") = Undefined
       THEN Returned(<<>>)
       ELSE Route(reg, info, Field(msg, "id"), Field(msg, "method"), Field(msg, "params"))

(***************************************************************************)
(* What a tool handler may do once it is called: return a ToolResult or    *)
(* throw (a rejected promise is a throw at the await).                     *)
(***************************************************************************)
ResultOk == [content |-> <<[type |-> "text", text |-> "Received: hi"]>>]
ResultIsError ==
  [content |-> <<[type |-> "text", text |-> "Something went wrong"]>>, isError |-> TRUE]
ResultNotError == [content |-> <<>>, isError |-> FALSE]
ToolResults == {ResultOk, ResultIsError, ResultNotError}
ThrownValues == {Err("Handler error"), Str("oops"), Null}

\* the message read as e.message whatever was thrown
ErrorMessageAssumesError(e) == IF e.type = "Error" THEN e.val ELSE "undefined"

\* e instanceof Error ? e.message : String(e)
ErrorMessage(e) == IF e.type = "Error" THEN e.val ELSE ToStr(e)

(***************************************************************************)
(* The framer's string operations (src/src/mcp.ts:78-80), with JavaScript  *)
(* positions: the first fragment is at 0, and -1 means "not found".        *)
(***************************************************************************)
IndexOfNewline(buf) ==
  IF \E i \in 1..Len(buf) : buf[i] = NL
  THEN (CHOOSE i \in 1..Len(buf) : buf[i] = NL /\ \A j \in 1..(i - 1) : buf[j] # NL) - 1
  ELSE -1

\* buf.slice(from, to)
Slice(buf, from, to) == SubSeq(buf, from + 1, to)

\* line.replace(/\r$/, "")
StripCR(line) ==
  IF Len(line) > 0 /\ line[Len(line)] = CR THEN SubSeq(line, 1, Len(line) - 1) ELSE line

(***************************************************************************)
(* The fetch tool (src/index.ts:12-86) and what its handler meets: the     *)
(* HTTP response or the failure of the request, the body, the subprocess.  *)
(* A content type is a string in fragments; the texts the handler builds   *)
(* from templates are tuples of their parts.                               *)
(***************************************************************************)
FetchTool ==
  [description |-> "Fetch web content from a URL and process it with AI.",
   schema |-> SchemaFetch, handler |-> "fetch"]

\* response.headers.get("content-type"): null or a string
HeaderAbsent == [type |-> "null"]
Header(parts) == [type |-> "string", parts |-> parts]
ContentTypes ==
  { HeaderAbsent, Header(<<>>), Header(<<"text/html">>),
    Header(<<"Text/HTML", "; charset=utf-8">>), Header(<<"application/xhtml+xml">>),
    Header(<<"application/json">>), Header(<<"TEXT/HTML">>), Header(<<"text/plain">>),
    Header(<<"text/plain; profile=", "text/html">>) }

\* String.prototype.toLowerCase on a fragment
ToLowerCase(part) == IF part \in {"Text/HTML", "TEXT/HTML"} THEN "text/html" ELSE part

\* String.prototype.includes, for a needle that no fragment boundary cuts
Includes(parts, needle) == \E i \in 1..Len(parts) : parts[i] = needle

\* a classifier that compares without lowering the case
isHtmlContentTypeCaseSensitive(contentType) ==
  IF contentType.type = "null" \/ contentType.parts = <<>>
  THEN FALSE
  ELSE Includes(contentType.parts, "text/html")
         \/ Includes(contentType.parts, "application/xhtml+xml")

\* isHtmlContentType (src/src/content.ts:13-17)
isHtmlContentType(contentType) ==
  IF contentType.type = "null" \/ contentType.parts = <<>>
  THEN FALSE
  ELSE LET lower == [i \in 1..Len(contentType.parts) |-> ToLowerCase(contentType.parts[i])]
       IN  Includes(lower, "text/html") \/ Includes(lower, "application/xhtml+xml")

\* htmlToMarkdown (src/src/content.ts:22-24): turndown's rendering of the bodies
htmlToMarkdown(html) == IF html = "<h1>Hello</h1>" THEN "# Hello" ELSE html

\* the status line of a response; the status text may be empty
StatusLines ==
  { [status |-> 200, statusText |-> "OK"],
    [status |-> 204, statusText |-> ""],
    [status |-> 304, statusText |-> "Not Modified"],
    [status |-> 404, statusText |-> "Not Found"],
    [status |-> 500, statusText |-> ""] }
Bodies == {"<h1>Hello</h1>", "{\"key\": \"value\"}"}
Responses ==
  { [status |-> l.status, statusText |-> l.statusText, contentType |-> c, body |-> b] :
      l \in StatusLines, c \in {HeaderAbsent, Header(<<"text/html">>)}, b \in Bodies }
    \cup { [status |-> 200, statusText |-> "OK", contentType |-> c, body |-> b] :
             c \in ContentTypes, b \in Bodies }
NoResponse == [status |-> 0]

\* a response counted as ok for every status under 400
ResponseOkUnder400(response) == response.status >= 200 /\ response.status < 400

\* response.ok: the status is in the range 200-299
ResponseOk(response) == response.status >= 200 /\ response.status <= 299

\* `${response.status}`
StatusString(status) ==
  CASE status = 200 -> "200" [] status = 204 -> "204" [] status = 304 -> "304"
    [] status = 404 -> "404" [] status = 500 -> "500"

\* what fetch, response.text() and the reads of the pipes may throw
FetchErrors == {Err("Network error"), Str("timeout")}
\* what the conversion of the body may throw
ConversionErrors == {Err("Conversion failed")}
\* what Bun.spawn may throw
SpawnErrors == {Err("Executable not found in $PATH: \"claude\"")}
\* the standard output and the standard error of the subprocess
Outputs == {"AI analysis of the page content", ""}
Stderrs == {"Claude CLI error: API key not found", ""}
ExitCodes == {0, 1, 127}

\* a result with isError: true and the text
ErrorResult(text) == [content |-> <<[type |-> "text", text |-> text]>>, isError |-> TRUE]
\* src/index.ts:34-42
HttpErrorResult(response) ==
  ErrorResult(<<"Error: HTTP ", StatusString(response.status), " ", response.statusText>>)
\* src/index.ts:69-74
ClaudeErrorResult(stderr) == ErrorResult(<<"Error processing with Claude: ", stderr>>)
\* src/index.ts:77
OutputResult(output) == [content |-> <<[type |-> "text", text |-> <<output>>]>>]
\* a catch that reads e.message whatever was thrown
CaughtResultReadsMessage(e) == ErrorResult(<<"Error: ", ErrorMessageAssumesError(e)>>)

\* src/index.ts:78-83
CaughtResult(e) == ErrorResult(<<"Error: ", ErrorMessage(e)>>)

\* a handler that converts every body
PageContentAlwaysConverted(response) == htmlToMarkdown(response.body)

\* src/index.ts:48-50
PageContent(response) ==
  IF isHtmlContentType(response.contentType)
  THEN htmlToMarkdown(response.body)
  ELSE response.body

\* src/index.ts:53
FullPrompt(content, prompt) ==
  <<"<page_content>\n", content, "\n</page_content>\n\n", prompt>>

\* the handler before it is called; exit code -1 stands for "not exited"
FetchIdle ==
  [pc |-> "idle", response |-> NoResponse, requests |-> <<>>, spawns |-> <<>>,
   output |-> "", exitCode |-> -1, stderr |-> "", failedAt |-> "", failure |-> Undefined]

(***************************************************************************)
(* State.                                                                  *)
(***************************************************************************)
VARIABLES
  serverInfo,  \* this.name, this.version
  tools,       \* this.tools
  stdin,       \* the text the input stream has still to deliver
  buffer,      \* start(): buffer
  pc,          \* where the program is: "setup", "read", "scan", "await", "done"
  cur,         \* the tools/call whose handler is awaited
  out,         \* the lines written to standard output, in order
  registered,  \* history: the names passed to tool(), in order
  latest,      \* history: for each name passed to tool(), the options last given with it
  consumed,    \* history: the text read from the input stream so far
  lines,       \* history: the lines the framer has cut, in order
  outSrc,      \* history: for each output line, the position in lines of its cause
  calls,       \* history: the handler invocations, in order
  outcomes,    \* history: how each awaited handler ended, in order
  fetchCall    \* the fetch handler: where it is, and what it has met and done

vars == <<serverInfo, tools, stdin, buffer, pc, cur, out,
          registered, latest, consumed, lines, outSrc, calls, outcomes, fetchCall>>

NoCall == [line |-> 0]

(***************************************************************************)
(* The documents and the input texts of the specifications.                *)
(***************************************************************************)
Docs ==
  {<<h, t>> : h \in Heads, t \in Tails} \cup {<<d>> : d \in ScalarDocs}
    \cup {<<>>, <<SP>>, <<HeadId0>>}

\* one newline-terminated line
Tapes == {d \o <<NL>> : d \in Docs}

LoopDocs ==
  { <<>>, <<SP>>, <<HeadId0>>, <<DocNull>>,
    <<HeadId0, TailList>>, <<HeadIdStr0, TailCallEchoHi>>, <<HeadNoId, TailCallEchoHi>> }
\* requests that are refused: unknown method, unknown tool, invalid arguments
LoopRefused == { <<HeadId0, TailListCase>>, <<HeadId0, TailCall>>, <<HeadId0, TailCallEcho5>> }
LoopInit == { <<HeadId0, TailInit>> }
LoopLines ==
  {d \o e : d \in LoopDocs, e \in {<<NL>>, <<CR, NL>>}}
    \cup {d \o <<NL>> : d \in LoopRefused \cup LoopInit}
LoopLast == {<<>>, <<HeadId0, TailList>>}

RECURSIVE LoopTexts(_)
LoopTexts(n) ==
  IF n = 0 THEN {<<>>}
  ELSE LoopTexts(n - 1) \cup {t \o l : t \in LoopTexts(n - 1), l \in LoopLines}

\* up to MaxLines lines, then possibly text with no newline after it
LoopTapes == {t \o l : t \in LoopTexts(MaxLines), l \in LoopLast}

\* input with carriage returns: each document ends with "\n" or "\r\n"; the
\* document that is one carriage return gives the lines "\r\n" and "\r\r\n"
FrameDocs == { <<>>, <<CR>>, <<HeadId0, TailList>>, <<HeadIdStr0, TailCallEchoHi>> }
FrameLines == {d \o e : d \in FrameDocs, e \in {<<NL>>, <<CR, NL>>}}

RECURSIVE FrameTexts(_)
FrameTexts(n) ==
  IF n = 0 THEN {<<>>}
  ELSE FrameTexts(n - 1) \cup {t \o l : t \in FrameTexts(n - 1), l \in FrameLines}

\* up to MaxLines lines, then possibly text with no newline after it
FrameTapes == {t \o l : t \in FrameTexts(MaxLines), l \in {<<>>, <<HeadId0>>}}

\* input of requests only: a call, a listing, a refused call, text that is not
\* JSON, each ended by a newline
LiveLines ==
  { <<HeadIdStr0, TailCallEchoHi, NL>>, <<HeadId0, TailList, NL>>,
    <<HeadId0, TailCallEcho5, NL>>, <<HeadId0, NL>> }

RECURSIVE LiveTexts(_)
LiveTexts(n) ==
  IF n = 0 THEN {<<>>}
  ELSE LiveTexts(n - 1) \cup {t \o l : t \in LiveTexts(n - 1), l \in LiveLines}

\* the options given to the constructor
ServerInfos ==
  { [name |-> "bun-fetch", version |-> "1.0.0"], [name |-> "test-server", version |-> "1.0.0"] }

EchoTool == [description |-> "Echo tool", schema |-> SchemaMessage, handler |-> "h1"]
DateTool == [description |-> "Date tool", schema |-> SchemaDate, handler |-> "h3"]
LoopRegistries ==
  { <<[name |-> "echo", tool |-> EchoTool]>>,
    <<[name |-> "echo", tool |-> EchoTool], [name |-> "strict", tool |-> DateTool]>> }

\* the input of the fetch server: one call of the fetch tool
FetchTapes == {<<h, t, NL>> : h \in {HeadId0, HeadIdStr0, HeadNoId}, t \in FetchTails}

(***************************************************************************)
(* Construction (src/index.ts:7-10, src/src/mcp.ts:45-50).                 *)
(***************************************************************************)
Init ==
  /\ serverInfo \in ServerInfos
  /\ tools = <<>>
  /\ stdin \in Tapes
  /\ buffer = <<>>
  /\ pc = "setup"
  /\ cur = NoCall
  /\ out = <<>>
  /\ registered = <<>>
  /\ latest = [k \in {} |-> EchoTool]
  /\ consumed = <<>>
  /\ lines = <<>>
  /\ outSrc = <<>>
  /\ calls = <<>>
  /\ outcomes = <<>>
  /\ fetchCall = FetchIdle

\* the state in which start() begins to read, after the registrations
InitLoop ==
  /\ serverInfo = [name |-> "bun-fetch", version |-> "1.0.0"]
  /\ tools \in LoopRegistries
  /\ stdin \in LoopTapes
  /\ buffer = <<>>
  /\ pc = "read"
  /\ cur = NoCall
  /\ out = <<>>
  /\ registered = [i \in 1..Len(tools) |-> tools[i].name]
  /\ latest = [k \in {tools[i].name : i \in 1..Len(tools)} |-> MapGet(tools, k)]
  /\ consumed = <<>>
  /\ lines = <<>>
  /\ outSrc = <<>>
  /\ calls = <<>>
  /\ outcomes = <<>>
  /\ fetchCall = FetchIdle

\* start() begins to read a text with carriage returns
InitFrame ==
  /\ serverInfo = [name |-> "test-server", version |-> "1.0.0"]
  /\ tools = <<[name |-> "echo", tool |-> EchoTool]>>
  /\ stdin \in FrameTapes
  /\ buffer = <<>>
  /\ pc = "read"
  /\ cur = NoCall
  /\ out = <<>>
  /\ registered = <<"echo">>
  /\ latest = [k \in {"echo"} |-> EchoTool]
  /\ consumed = <<>>
  /\ lines = <<>>
  /\ outSrc = <<>>
  /\ calls = <<>>
  /\ outcomes = <<>>
  /\ fetchCall = FetchIdle

\* start() begins to read a text of requests
InitLive ==
  /\ serverInfo = [name |-> "test-server", version |-> "1.0.0"]
  /\ tools = <<[name |-> "echo", tool |-> EchoTool]>>
  /\ stdin \in LiveTexts(MaxLines)
  /\ buffer = <<>>
  /\ pc = "read"
  /\ cur = NoCall
  /\ out = <<>>
  /\ registered = <<"echo">>
  /\ latest = [k \in {"echo"} |-> EchoTool]
  /\ consumed = <<>>
  /\ lines = <<>>
  /\ outSrc = <<>>
  /\ calls = <<>>
  /\ outcomes = <<>>
  /\ fetchCall = FetchIdle

\* index.ts when start() begins to read: the fetch tool is registered
InitFetch ==
  /\ serverInfo = [name |-> "bun-fetch", version |-> "1.0.0"]
  /\ tools = <<[name |-> "fetch", tool |-> FetchTool]>>
  /\ stdin \in FetchTapes
  /\ buffer = <<>>
  /\ pc = "read"
  /\ cur = NoCall
  /\ out = <<>>
  /\ registered = <<"fetch">>
  /\ latest = [k \in {"fetch"} |-> FetchTool]
  /\ consumed = <<>>
  /\ lines = <<>>
  /\ outSrc = <<>>
  /\ calls = <<>>
  /\ outcomes = <<>>
  /\ fetchCall = FetchIdle

(***************************************************************************)
(* Actions.                                                                *)
(***************************************************************************)
\* server.tool(name, options)
Tool(name, options) ==
  /\ pc = "setup"
  /\ Len(registered) < MaxTools
  /\ tools' = MapSet(tools, name, options)
  /\ registered' = Append(registered, name)
  /\ latest' = [k \in DOMAIN latest \cup {name} |-> IF k = name THEN options ELSE latest[k]]
  /\ UNCHANGED <<serverInfo, stdin, buffer, pc, cur, out, consumed, lines, outSrc, calls,
                 outcomes, fetchCall>>

\* server.start() is called: buffer = ""
Start ==
  /\ pc = "setup"
  /\ pc' = "read"
  /\ buffer' = <<>>
  /\ UNCHANGED <<serverInfo, tools, stdin, cur, out, registered, latest, consumed, lines,
                 outSrc, calls, outcomes, fetchCall>>

\* a chunk that replaces the buffer instead of being appended to it
ReadChunkReplacesBuffer(n) ==
  /\ pc = "read"
  /\ n \in 1..MaxChunk
  /\ n <= Len(stdin)
  /\ buffer' = SubSeq(stdin, 1, n)
  /\ consumed' = consumed \o SubSeq(stdin, 1, n)
  /\ stdin' = SubSeq(stdin, n + 1, Len(stdin))
  /\ pc' = "scan"
  /\ UNCHANGED <<serverInfo, tools, cur, out, registered, latest, lines, outSrc, calls,
                 outcomes, fetchCall>>

\* for await: the stream delivers a chunk, which is appended to the buffer
ReadChunk(n) ==
  /\ pc = "read"
  /\ n \in 1..MaxChunk
  /\ n <= Len(stdin)
  /\ buffer' = buffer \o SubSeq(stdin, 1, n)
  /\ consumed' = consumed \o SubSeq(stdin, 1, n)
  /\ stdin' = SubSeq(stdin, n + 1, Len(stdin))
  /\ pc' = "scan"
  /\ UNCHANGED <<serverInfo, tools, cur, out, registered, latest, lines, outSrc, calls,
                 outcomes, fetchCall>>

\* a loop that may end although the stream has text left
EndOfStreamBeforeClose ==
  /\ pc = "read"
  /\ pc' = "done"
  /\ UNCHANGED <<serverInfo, tools, stdin, buffer, cur, out, registered, latest, consumed,
                 lines, outSrc, calls, outcomes, fetchCall>>

\* for await: the stream has closed, start() returns
EndOfStream ==
  /\ pc = "read"
  /\ stdin = <<>>
  /\ pc' = "done"
  /\ UNCHANGED <<serverInfo, tools, stdin, buffer, cur, out, registered, latest, consumed,
                 lines, outSrc, calls, outcomes, fetchCall>>

\* a loop that, once the stream has no more text, takes what is left in the
\* buffer for a line and handles it
ExitScanFlushes ==
  /\ pc = "scan"
  /\ IndexOfNewline(buffer) = -1
  /\ pc' = "read"
  /\ IF stdin = <<>> /\ buffer # <<>>
     THEN LET line == StripCR(buffer)
              parsed == JsonParse(line)
              written == IF ~parsed.ok
                         THEN <<respondError(Null, PARSE_ERROR, <<"Parse error">>)>>
                         ELSE LET outcome == handleMessage(tools, serverInfo, parsed.value)
                              IN  IF outcome.kind = "done" THEN outcome.lines ELSE <<>>
          IN  /\ buffer' = <<>>
              /\ lines' = Append(lines, line)
              /\ out' = out \o written
              /\ outSrc' = outSrc \o [i \in 1..Len(written) |-> Len(lines) + 1]
     ELSE UNCHANGED <<buffer, lines, out, outSrc>>
  /\ UNCHANGED <<serverInfo, tools, stdin, cur, registered, latest, consumed, calls, outcomes,
                 fetchCall>>

\* while: the buffer holds no newline, the loop waits for the next chunk
ExitScan ==
  /\ pc = "scan"
  /\ IndexOfNewline(buffer) = -1
  /\ pc' = "read"
  /\ UNCHANGED <<serverInfo, tools, stdin, buffer, cur, out, registered, latest, consumed,
                 lines, outSrc, calls, outcomes, fetchCall>>

\* a pass whose catch swallows the SyntaxError of JSON.parse
ScanOutputSilentOnSyntaxError(reg, info, line) ==
  IF line = <<>> \/ ~JsonParse(line).ok
  THEN <<>>
  ELSE LET outcome == handleMessage(reg, info, JsonParse(line).value)
       IN  CASE outcome.kind = "throw" ->
                  <<respondError(Null, PARSE_ERROR, <<"Parse error">>)>>
             [] outcome.kind = "done" -> outcome.lines
             [] OTHER -> <<>>

\* a dispatcher that remembers the lines it has seen and answers each once
ScanOutputOncePerLine(reg, info, line) ==
  IF line = <<>> \/ (\E k \in 1..Len(lines) : lines[k] = line)
  THEN <<>>
  ELSE LET parsed == JsonParse(line)
       IN  IF ~parsed.ok
           THEN <<respondError(Null, PARSE_ERROR, <<"Parse error">>)>>
           ELSE LET outcome == handleMessage(reg, info, parsed.value)
                IN  CASE outcome.kind = "throw" ->
                           <<respondError(Null, PARSE_ERROR, <<"Parse error">>)>>
                      [] outcome.kind = "done" -> outcome.lines
                      [] OTHER -> <<>>

\* a pass in which a refusal is thrown on after it is written, so that the catch
\* of the loop reports it a second time
ScanOutputReportsRefusalsTwice(reg, info, line) ==
  IF line = <<>>
  THEN <<>>
  ELSE LET parsed == JsonParse(line)
       IN  IF ~parsed.ok
           THEN <<respondError(Null, PARSE_ERROR, <<"Parse error">>)>>
           ELSE LET outcome == handleMessage(reg, info, parsed.value)
                IN  CASE outcome.kind = "throw" ->
                           <<respondError(Null, PARSE_ERROR, <<"Parse error">>)>>
                      [] outcome.kind = "done" ->
                           IF outcome.lines # <<>> /\ "error" \in DOMAIN outcome.lines[1]
                           THEN outcome.lines
                                  \o <<respondError(Null, PARSE_ERROR, <<"Parse error">>)>>
                           ELSE outcome.lines
                      [] OTHER -> <<>>

\* the output of one pass of the while loop that does not await a handler
ScanOutput(reg, info, line) ==
  IF line = <<>>
  THEN <<>>
  ELSE LET parsed == JsonParse(line)
       IN  IF ~parsed.ok
           THEN <<respondError(Null, PARSE_ERROR, <<"Parse error">>)>>
           ELSE LET outcome == handleMessage(reg, info, parsed.value)
                IN  CASE outcome.kind = "throw" ->
                           <<respondError(Null, PARSE_ERROR, <<"Parse error">>)>>
                      [] outcome.kind = "done" -> outcome.lines
                      [] OTHER -> <<>>

\* whether one pass of the while loop calls a handler, and the call it makes
ScanCall(reg, info, line) ==
  IF line = <<>> \/ ~JsonParse(line).ok
  THEN NoCall
  ELSE LET outcome == handleMessage(reg, info, JsonParse(line).value)
       IN  IF outcome.kind = "invoke"
           THEN [line |-> 1, id |-> outcome.id, name |-> outcome.name,
                 handler |-> outcome.handler, args |-> outcome.args]
           ELSE NoCall

\* handleMessage called without await: the loop goes on at once
AfterPassNotAwaited(call) == "scan"

\* await this.handleMessage(...): a pass that called a handler waits for it
AfterPass(call) == IF call = NoCall THEN "scan" ELSE "await"

\* while: one line is cut from the buffer and, unless empty, parsed and handled,
\* up to the return of handleMessage or to the await of a handler
ScanLine ==
  /\ pc = "scan"
  /\ IndexOfNewline(buffer) # -1
  /\ LET index == IndexOfNewline(buffer)
         line == StripCR(Slice(buffer, 0, index))
         written == ScanOutput(tools, serverInfo, line)
         call == ScanCall(tools, serverInfo, line)
         n == Len(lines) + 1
     IN  /\ buffer' = Slice(buffer, index + 1, Len(buffer))
         /\ lines' = Append(lines, line)
         /\ out' = out \o written
         /\ outSrc' = outSrc \o [i \in 1..Len(written) |-> n]
         /\ cur' = IF call = NoCall THEN cur ELSE [call EXCEPT !.line = n]
         /\ calls' = IF call = NoCall THEN calls ELSE Append(calls, [call EXCEPT !.line = n])
         /\ pc' = AfterPass(call)
  /\ UNCHANGED <<serverInfo, tools, stdin, registered, latest, consumed, outcomes, fetchCall>>

\* a result with isError answered with a JSON-RPC error
HandlerReturnErrorsAsProtocolErrors(result) ==
  /\ cur # NoCall
  /\ out' = Append(out, IF "isError" \in DOMAIN result /\ result.isError
                        THEN respondError(cur.id, INTERNAL_ERROR, <<"Tool error">>)
                        ELSE respond(cur.id, result))
  /\ outSrc' = Append(outSrc, cur.line)
  /\ outcomes' = Append(outcomes, [line |-> cur.line, kind |-> "return", value |-> result])
  /\ cur' = NoCall
  /\ pc' = IF pc = "await" THEN "scan" ELSE pc
  /\ UNCHANGED <<serverInfo, tools, stdin, buffer, registered, latest, consumed, lines, calls,
                 fetchCall>>

\* a tool call after which the tool called is no longer registered
HandlerReturnUnregisters(result) ==
  /\ cur # NoCall
  /\ out' = Append(out, respond(cur.id, result))
  /\ outSrc' = Append(outSrc, cur.line)
  /\ outcomes' = Append(outcomes, [line |-> cur.line, kind |-> "return", value |-> result])
  /\ cur' = NoCall
  /\ pc' = IF pc = "await" THEN "scan" ELSE pc
  /\ tools' = SelectSeq(tools, LAMBDA t : t.name # cur.name)
  /\ UNCHANGED <<serverInfo, stdin, buffer, registered, latest, consumed, lines, calls,
                 fetchCall>>

\* the awaited handler returns (or its promise resolves with) result
HandlerReturn(result) ==
  /\ cur # NoCall
  /\ out' = Append(out, respond(cur.id, result))
  /\ outSrc' = Append(outSrc, cur.line)
  /\ outcomes' = Append(outcomes, [line |-> cur.line, kind |-> "return", value |-> result])
  /\ cur' = NoCall
  /\ pc' = IF pc = "await" THEN "scan" ELSE pc
  /\ UNCHANGED <<serverInfo, tools, stdin, buffer, registered, latest, consumed, lines, calls,
                 fetchCall>>

\* a throwing handler whose error is written while the loop stays at its await
HandlerThrowLeavesLoopWaiting(e) ==
  /\ cur # NoCall
  /\ out' = Append(out, respondError(cur.id, INTERNAL_ERROR, <<ErrorMessage(e)>>))
  /\ outSrc' = Append(outSrc, cur.line)
  /\ outcomes' = Append(outcomes, [line |-> cur.line, kind |-> "throw", value |-> e])
  /\ cur' = NoCall
  /\ UNCHANGED <<serverInfo, tools, stdin, buffer, pc, registered, latest, consumed, lines,
                 calls, fetchCall>>

\* the awaited handler throws (or its promise rejects with) e
HandlerThrow(e) ==
  /\ cur # NoCall
  /\ out' = Append(out, respondError(cur.id, INTERNAL_ERROR, <<ErrorMessage(e)>>))
  /\ outSrc' = Append(outSrc, cur.line)
  /\ outcomes' = Append(outcomes, [line |-> cur.line, kind |-> "throw", value |-> e])
  /\ cur' = NoCall
  /\ pc' = IF pc = "await" THEN "scan" ELSE pc
  /\ UNCHANGED <<serverInfo, tools, stdin, buffer, registered, latest, consumed, lines, calls,
                 fetchCall>>

(***************************************************************************)
(* The handler of the fetch tool, one action per stretch of code between   *)
(* two awaits.                                                             *)
(***************************************************************************)
\* the fetch handler is the handler awaited, and it is at the position
FetchAt(position) ==
  /\ pc = "await"
  /\ cur # NoCall
  /\ cur.handler = "fetch"
  /\ fetchCall.pc = position

\* the handler goes on to its next await
FetchGoesOn(next) ==
  /\ fetchCall' = next
  /\ UNCHANGED <<serverInfo, tools, stdin, buffer, pc, cur, out, registered, latest,
                 consumed, lines, outSrc, calls, outcomes>>

\* the handler returns result; handleToolCall writes it (src/src/mcp.ts:162-163)
FetchReturns(result, next) ==
  /\ fetchCall' = [next EXCEPT !.pc = "returned"]
  /\ out' = Append(out, respond(cur.id, result))
  /\ outSrc' = Append(outSrc, cur.line)
  /\ outcomes' = Append(outcomes, [line |-> cur.line, kind |-> "return", value |-> result])
  /\ cur' = NoCall
  /\ pc' = "scan"
  /\ UNCHANGED <<serverInfo, tools, stdin, buffer, registered, latest, consumed, lines, calls>>

\* src/index.ts:24-31: the handler is called and calls fetch(args.url, ...)
CallFetch ==
  /\ FetchAt("idle")
  /\ FetchGoesOn([FetchIdle EXCEPT !.pc = "fetch", !.requests = <<cur.args.props.url>>])

\* src/index.ts:78-84: fetch rejects, the catch returns the error result
FetchRejects(e) ==
  /\ FetchAt("fetch")
  /\ FetchReturns(CaughtResult(e),
                  [fetchCall EXCEPT !.failedAt = "fetch", !.failure = e])

\* a handler that reads the body of every response, whatever its status
FetchResolvesAnyStatus(response) ==
  /\ FetchAt("fetch")
  /\ FetchGoesOn([fetchCall EXCEPT !.pc = "text", !.response = response])

\* src/index.ts:33-43: fetch resolves; a response that is not ok is returned
\* as an error result, else the body is read
FetchResolves(response) ==
  /\ FetchAt("fetch")
  /\ IF ~ResponseOk(response)
     THEN FetchReturns(HttpErrorResult(response), [fetchCall EXCEPT !.response = response])
     ELSE FetchGoesOn([fetchCall EXCEPT !.pc = "text", !.response = response])

\* src/index.ts:46: response.text() rejects
TextRejects(e) ==
  /\ FetchAt("text")
  /\ FetchReturns(CaughtResult(e),
                  [fetchCall EXCEPT !.failedAt = "text", !.failure = e])

\* src/index.ts:46-64: the body is read, converted if it is HTML, put in the
\* prompt, and the subprocess is started with the prompt on its standard input
TextResolves ==
  /\ FetchAt("text")
  /\ LET content == PageContent(fetchCall.response)
         fullPrompt == FullPrompt(content, cur.args.props.prompt.val)
     IN  FetchGoesOn([fetchCall EXCEPT !.pc = "output",
                                       !.spawns = Append(@, fullPrompt)])

\* src/index.ts:48-50: htmlToMarkdown throws on the body of an HTML response
ConversionThrows(e) ==
  /\ FetchAt("text")
  /\ isHtmlContentType(fetchCall.response.contentType)
  /\ FetchReturns(CaughtResult(e),
                  [fetchCall EXCEPT !.failedAt = "convert", !.failure = e])

\* a handler that starts the subprocess outside its try: what Bun.spawn throws
\* leaves the handler and handleToolCall reports it
SpawnThrowsUncaught(e) ==
  /\ FetchAt("text")
  /\ fetchCall' = [fetchCall EXCEPT !.pc = "returned", !.failedAt = "spawn", !.failure = e]
  /\ out' = Append(out, respondError(cur.id, INTERNAL_ERROR, <<ErrorMessage(e)>>))
  /\ outSrc' = Append(outSrc, cur.line)
  /\ outcomes' = Append(outcomes, [line |-> cur.line, kind |-> "throw", value |-> e])
  /\ cur' = NoCall
  /\ pc' = "scan"
  /\ UNCHANGED <<serverInfo, tools, stdin, buffer, registered, latest, consumed, lines, calls>>

\* src/index.ts:55: Bun.spawn throws (the executable is not found)
SpawnThrows(e) ==
  /\ FetchAt("text")
  /\ FetchReturns(CaughtResult(e),
                  [fetchCall EXCEPT !.failedAt = "spawn", !.failure = e])

\* src/index.ts:64: the standard output of the subprocess is read to its end
OutputResolves(output) ==
  /\ FetchAt("output")
  /\ FetchGoesOn([fetchCall EXCEPT !.pc = "exited", !.output = output])

\* src/index.ts:64: the read of the standard output fails
OutputRejects(e) ==
  /\ FetchAt("output")
  /\ FetchReturns(CaughtResult(e),
                  [fetchCall EXCEPT !.failedAt = "output", !.failure = e])

\* a handler that takes only exit code 1 for a failure
ExitedFailsOnOne(exitCode) ==
  /\ FetchAt("exited")
  /\ IF exitCode = 1
     THEN FetchGoesOn([fetchCall EXCEPT !.pc = "stderr", !.exitCode = exitCode])
     ELSE FetchReturns(OutputResult(fetchCall.output), [fetchCall EXCEPT !.exitCode = exitCode])

\* src/index.ts:65-77: the subprocess exits; exit code 0 returns the output,
\* another exit code has the standard error read
Exited(exitCode) ==
  /\ FetchAt("exited")
  /\ IF exitCode # 0
     THEN FetchGoesOn([fetchCall EXCEPT !.pc = "stderr", !.exitCode = exitCode])
     ELSE FetchReturns(OutputResult(fetchCall.output), [fetchCall EXCEPT !.exitCode = exitCode])

\* src/index.ts:68-75: the standard error is read and returned as an error result
StderrResolves(stderr) ==
  /\ FetchAt("stderr")
  /\ FetchReturns(ClaudeErrorResult(stderr), [fetchCall EXCEPT !.stderr = stderr])

\* src/index.ts:68: the read of the standard error fails
StderrRejects(e) ==
  /\ FetchAt("stderr")
  /\ FetchReturns(CaughtResult(e),
                  [fetchCall EXCEPT !.failedAt = "stderr", !.failure = e])

\* index.ts from start() on: the read loop and the fetch handler
FetchNext ==
  \/ \E n \in 1..MaxChunk : ReadChunk(n)
  \/ EndOfStream
  \/ ExitScan
  \/ ScanLine
  \/ CallFetch
  \/ \E e \in FetchErrors : FetchRejects(e)
  \/ \E response \in Responses : FetchResolves(response)
  \/ \E e \in FetchErrors : TextRejects(e)
  \/ TextResolves
  \/ \E e \in ConversionErrors : ConversionThrows(e)
  \/ \E e \in SpawnErrors : SpawnThrows(e)
  \/ \E output \in Outputs : OutputResolves(output)
  \/ \E e \in FetchErrors : OutputRejects(e)
  \/ \E exitCode \in ExitCodes : Exited(exitCode)
  \/ \E stderr \in Stderrs : StderrResolves(stderr)
  \/ \E e \in FetchErrors : StderrRejects(e)

\* the read loop, from the first chunk to the return of start()
Loop ==
  \/ \E n \in 1..MaxChunk : ReadChunk(n)
  \/ EndOfStream
  \/ ExitScan
  \/ ScanLine
  \/ \E result \in ToolResults : HandlerReturn(result)
  \/ \E e \in ThrownValues : HandlerThrow(e)

Next ==
  \/ \E name \in ToolNames, options \in StoredTools : Tool(name, options)
  \/ Start
  \/ \E n \in 1..MaxChunk : ReadChunk(n)
  \/ EndOfStream
  \/ ExitScan
  \/ ScanLine
  \/ \E result \in ToolResults : HandlerReturn(result)
  \/ \E e \in ThrownValues : HandlerThrow(e)

\* the program from construction on, reading one line
Spec == Init /\ [][Next]_vars

\* the read loop over several lines, with the registry as start() finds it
SpecLoop == InitLoop /\ [][Loop]_vars

\* the read loop over lines that end with and without carriage returns
SpecFrame == InitFrame /\ [][Loop]_vars

\* the handler awaited settles: it returns a result or throws
HandlerSettles ==
  \/ \E result \in ToolResults : HandlerReturn(result)
  \/ \E e \in ThrownValues : HandlerThrow(e)

\* ScanLine can be taken: the loop is at its while and the buffer has a newline
ScanLineEnabled == pc = "scan" /\ IndexOfNewline(buffer) # -1

\* the read loop when the stream delivers its text and closes, the loop runs
\* whenever it can, and every handler that is called settles.  The condition
\* on ScanLine is WF_vars(ScanLine) with ENABLED written out as its guard.
SpecLive ==
  /\ InitLive
  /\ [][Loop]_vars
  /\ WF_vars(\E n \in 1..MaxChunk : ReadChunk(n))
  /\ WF_vars(EndOfStream)
  /\ WF_vars(ExitScan)
  /\ (([]<>(~ScanLineEnabled)) \/ ([]<>(<<ScanLine>>_vars)))
  /\ WF_vars(HandlerSettles)

\* index.ts: the server with the fetch tool, reading one call
SpecFetch == InitFetch /\ [][FetchNext]_vars

(***************************************************************************)
(* Vocabulary of the properties.                                           *)
(***************************************************************************)
\* the value line n parsed to, for a line that parses
Request(n) == JsonParse(lines[n]).value

\* line n parsed to an object that has an id member
IsRequestLine(n) ==
  /\ lines[n] # <<>>
  /\ JsonParse(lines[n]).ok
  /\ Request(n).type = "object"
  /\ Request(n).id.type # "undefined"

\* line n is a request for the method
IsRequestFor(n, method) ==
  IsRequestLine(n) /\ Request(n).method.type = "string" /\ Request(n).method.val = method

\* line n is a tools/call request whose params name a tool
NamesTool(n) ==
  /\ IsRequestFor(n, "tools/call")
  /\ Request(n).params.type = "object"
  /\ Request(n).params.name.type = "string"

\* the handling of line n is over
Finished(n) == ~(cur # NoCall /\ cur.line = n)

\* the positions in out of the lines written for line n
Answers(n) == {i \in 1..Len(out) : outSrc[i] = n}

\* a handler was called for line n
Called(n) == \E k \in 1..Len(calls) : calls[k].line = n

IsResult(l) == "result" \in DOMAIN l /\ "error" \notin DOMAIN l
IsError(l) == "error" \in DOMAIN l /\ "result" \notin DOMAIN l
IsErrorWith(l, code) == IsError(l) /\ l.error.code = code

\* the number of newlines of a text
NewlineCount(text) == Cardinality({i \in 1..Len(text) : text[i] = NL})

\* the place of the first newline of a text that has one
FirstNewline(text) == CHOOSE i \in 1..Len(text) : text[i] = NL /\ \A j \in 1..(i - 1) : text[j] # NL
HasNewline(text) == \E i \in 1..Len(text) : text[i] = NL

\* a line without the one carriage return that may end it
WithoutCR(l) == IF l # <<>> /\ l[Len(l)] = CR THEN SubSeq(l, 1, Len(l) - 1) ELSE l

RECURSIVE LinesOf(_)
\* the newline-terminated lines of a text
LinesOf(text) ==
  IF ~HasNewline(text) THEN <<>>
  ELSE <<WithoutCR(SubSeq(text, 1, FirstNewline(text) - 1))>>
         \o LinesOf(SubSeq(text, FirstNewline(text) + 1, Len(text)))

RECURSIVE RestOf(_)
\* what follows the last newline of a text
RestOf(text) ==
  IF ~HasNewline(text) THEN text
  ELSE RestOf(SubSeq(text, FirstNewline(text) + 1, Len(text)))

\* the values each kind of member admits, among the values of the inputs
Admitted(validator) ==
  CASE validator = "string" ->
         {Str("hi"), Str("active"), Str("invalid"), Str("https://example.com"), Str("Read")}
    [] validator = "enum" -> {Str("active")}
    [] validator = "range" -> {Num("1"), Num("5")}
    [] OTHER -> {}

\* the arguments miss a member of the schema or give one it does not admit
FailsSchema(schema, a) ==
  \/ a.type \notin {"object", "undefined", "null"}
  \/ \E k \in DOMAIN schema :
       \/ a.type # "object"
       \/ k \notin DOMAIN a.props
       \/ a.props[k] \notin Admitted(schema[k])

\* the text of a thrown value: the message of an Error, else its string form
ThrownText(e) ==
  CASE e.type = "Error" -> e.val
    [] e.type = "string" -> e.val
    [] e.type = "null" -> "null"

RECURSIVE FirstSeen(_)
\* the names of a sequence of registrations, each once, at its first occurrence
FirstSeen(regs) ==
  IF regs = <<>> THEN <<>>
  ELSE LET front == SubSeq(regs, 1, Len(regs) - 1)
           name == regs[Len(regs)]
       IN  IF \E k \in 1..Len(front) : front[k] = name
           THEN FirstSeen(front)
           ELSE Append(FirstSeen(front), name)

\* the names registered so far
RegisteredNames == {registered[k] : k \in 1..Len(registered)}

\* the number of registrations of a name
TimesRegistered(name) == Cardinality({k \in 1..Len(registered) : registered[k] = name})

\* the calls of a handler made for line n
CallsFor(n) == {k \in 1..Len(calls) : calls[k].line = n}

\* the names of the entries of a tools array, in order
NamesOf(ts) == [j \in 1..Len(ts) |-> ts[j].name]

\* a line made of whitespace only, the empty line included
IsBlank(l) == \A k \in 1..Len(l) : IsWhitespace(l[k])

\* no line before line n is an initialize request
NoInitializeBefore(n) == \A k \in 1..(n - 1) : ~IsRequestFor(k, "initialize")

\* every registered schema has a JSON Schema rendering
Representable ==
  \A i \in 1..Len(tools) : \A k \in DOMAIN tools[i].tool.schema : tools[i].tool.schema[k] # "date"

\* the one answer to line n is the result with one text item, the text and the
\* isError member given (absent when the result is to carry none)
AnsweredWithText(n, text, isError) ==
  /\ Cardinality(Answers(n)) = 1
  /\ \A i \in Answers(n) :
       /\ IsResult(out[i])
       /\ out[i].id = Request(n).id
       /\ Len(out[i].result.content) = 1
       /\ out[i].result.content[1].type = "text"
       /\ out[i].result.content[1].text = text
       /\ IF isError = "absent"
          THEN "isError" \notin DOMAIN out[i].result
          ELSE "isError" \in DOMAIN out[i].result /\ out[i].result.isError = TRUE

\* the content types of the inputs that name HTML: text/html or
\* application/xhtml+xml in any case, with or without parameters
HtmlTypes ==
  { Header(<<"text/html">>), Header(<<"Text/HTML", "; charset=utf-8">>),
    Header(<<"application/xhtml+xml">>), Header(<<"TEXT/HTML">>),
    Header(<<"text/plain; profile=", "text/html">>) }

\* the spellings of a media type in the inputs
Spellings(mediaType) ==
  IF mediaType = "text/html" THEN {"text/html", "Text/HTML", "TEXT/HTML"} ELSE {mediaType}

\* the header value has the media type in it, in any case
ContainsIgnoringCase(contentType, mediaType) ==
  /\ contentType.type = "string"
  /\ \E i \in 1..Len(contentType.parts) : contentType.parts[i] \in Spellings(mediaType)

\* the text a method has inside a template literal
MethodText(method) == IF method.type = "undefined" THEN "undefined" ELSE method.val

\* the three methods the switch has a case for
KnownMethods == {Str("initialize"), Str("tools/list"), Str("tools/call")}

(***************************************************************************)
(* C1.  Every message that has an id (a number or a string), whatever its  *)
(* method, its params, the registry and the outcome of the handler, is     *)
(* answered by exactly one output line, and that line carries the id of    *)
(* the request, same value and same type.                                  *)
(***************************************************************************)
C1_OneAnswerWithTheRequestId ==
  \A n \in 1..Len(lines) :
    (IsRequestLine(n) /\ Request(n).id.type \in {"number", "string"} /\ Finished(n))
      => /\ Cardinality(Answers(n)) = 1
         /\ \A i \in Answers(n) : "id" \in DOMAIN out[i] /\ out[i].id = Request(n).id

(***************************************************************************)
(* C2.  A message whose id is undefined (a notification) writes no output  *)
(* line, whatever its method, and calls no handler.                        *)
(***************************************************************************)
C2_NotificationsWriteNothing ==
  \A n \in 1..Len(lines) :
    (/\ lines[n] # <<>>
     /\ JsonParse(lines[n]).ok
     /\ Request(n).type # "null"
     /\ (Request(n).type = "object" => Request(n).id.type = "undefined"))
      => Answers(n) = {} /\ ~Called(n)

\* a notification for tools/call naming a registered tool has been handled in silence
C2_Witness ==
  /\ pc = "done"
  /\ lines = <<(<<HeadNoId, TailCallEchoHi>>)>>
  /\ Registered(tools, Str("echo"))
  /\ out = <<>>

(***************************************************************************)
(* C3.  Responses are written in the order in which their requests were    *)
(* read: the response to an earlier line precedes the response to a later  *)
(* line, however long the handler of the earlier line takes.               *)
(***************************************************************************)
C3_ResponsesInRequestOrder ==
  \A i, j \in 1..Len(out) : i < j => outSrc[i] < outSrc[j]

\* the first line was answered by its handler, the second line after it
C3_Witness ==
  /\ Len(out) = 2
  /\ outSrc = <<1, 2>>
  /\ Len(outcomes) >= 1
  /\ outcomes[1].line = 1

(***************************************************************************)
(* C4.  Every line written is a response envelope: jsonrpc is "2.0", an id *)
(* is present, and exactly one of result and error is present.             *)
(***************************************************************************)
C4_EveryLineIsAnEnvelope ==
  \A i \in 1..Len(out) :
    /\ DOMAIN out[i] \subseteq {"jsonrpc", "id", "result", "error"}
    /\ "jsonrpc" \in DOMAIN out[i] /\ out[i].jsonrpc = Str("2.0")
    /\ "id" \in DOMAIN out[i]
    /\ IsResult(out[i]) \/ IsError(out[i])

\* a handler threw and the line written for it is an error envelope
C4_Witness ==
  /\ Len(outcomes) = 1 /\ outcomes[1].kind = "throw"
  /\ Len(out) = 1 /\ IsErrorWith(out[1], -32603)

(***************************************************************************)
(* C5.  A non-empty line that is not JSON is answered by exactly one       *)
(* response, with id null and code -32700, and the lines after it are      *)
(* still cut and handled: when the stream has ended every newline of the   *)
(* input has given a line and every request line has its answer.           *)
(***************************************************************************)
C5_ParseErrorThenGoOn ==
  /\ \A n \in 1..Len(lines) :
       (lines[n] # <<>> /\ ~JsonParse(lines[n]).ok)
         => /\ Cardinality(Answers(n)) = 1
            /\ \A i \in Answers(n) :
                 out[i] = [jsonrpc |-> Str("2.0"), id |-> Null,
                           error |-> [code |-> -32700, message |-> <<"Parse error">>]]
  /\ pc = "done" =>
       /\ Len(lines) = NewlineCount(consumed)
       /\ \A n \in 1..Len(lines) : IsRequestLine(n) => Answers(n) # {}

\* a line that is not JSON was followed by a request, which got its result
C5_Witness ==
  /\ pc = "done"
  /\ lines = <<(<<HeadId0>>), (<<HeadId0, TailList>>)>>
  /\ Len(out) = 2
  /\ IsErrorWith(out[1], -32700)
  /\ IsResult(out[2])

(***************************************************************************)
(* C6.  What the framer cuts does not depend on where the chunks end: at   *)
(* every moment the lines cut so far, followed by the lines still in the   *)
(* buffer, are the lines of the whole text read so far taken in one piece, *)
(* and the unterminated rest of the buffer is that of the text.            *)
(***************************************************************************)
C6_FramingIndependentOfChunks ==
  /\ lines \o LinesOf(buffer) = LinesOf(consumed)
  /\ RestOf(buffer) = RestOf(consumed)

\* a chunk ended between the two fragments of the second document
C6_Witness ==
  /\ pc = "read"
  /\ Len(lines) = 1
  /\ buffer = <<HeadIdStr0>>
  /\ stdin # <<>> /\ stdin[1] = TailCallEchoHi

(***************************************************************************)
(* C7.  A tools/call request that names a tool that is not registered is   *)
(* answered with error -32601 and the message "Unknown tool: <name>",      *)
(* whatever its arguments, and no handler is called.                       *)
(***************************************************************************)
C7_UnknownTool ==
  \A n \in 1..Len(lines) :
    (NamesTool(n) /\ ~MapHas(tools, Request(n).params.name.val))
      => /\ Cardinality(Answers(n)) = 1
         /\ \A i \in Answers(n) :
              out[i] = [jsonrpc |-> Str("2.0"), id |-> Request(n).id,
                        error |-> [code |-> -32601,
                                   message |-> <<"Unknown tool: ",
                                                 Request(n).params.name.val>>]]
         /\ ~Called(n)

\* arguments that would fail every schema, sent to a registry without the tool
C7_Witness ==
  /\ lines = <<(<<HeadId0, TailCallEcho5>>)>>
  /\ tools # <<>>
  /\ ~MapHas(tools, "echo")
  /\ Len(out) = 1

(***************************************************************************)
(* C8.  A tools/call request that names a registered tool with arguments   *)
(* that fail its schema (not an object, a required member missing, a       *)
(* member of the wrong type) is answered with error -32602, and the        *)
(* handler is not called.                                                  *)
(***************************************************************************)
C8_InvalidArguments ==
  \A n \in 1..Len(lines) :
    (/\ NamesTool(n)
     /\ MapHas(tools, Request(n).params.name.val)
     /\ FailsSchema(MapGet(tools, Request(n).params.name.val).schema,
                    Request(n).params.arguments))
      => /\ Cardinality(Answers(n)) = 1
         /\ \A i \in Answers(n) : IsErrorWith(out[i], -32602) /\ out[i].id = Request(n).id
         /\ ~Called(n)

\* a number above the range of the schema was given
C8_Witness ==
  /\ lines = <<(<<HeadIdStr0, TailCallEchoCount150>>)>>
  /\ MapHas(tools, "echo")
  /\ DOMAIN MapGet(tools, "echo").schema = {"count"}
  /\ Len(out) = 1
  /\ IsErrorWith(out[1], -32602)

(***************************************************************************)
(* C9.  When the handler of a validly called tool throws, the request is   *)
(* answered with error -32603 whose message is the message of the thrown   *)
(* Error, or the string form of a thrown value that is not an Error, and   *)
(* nothing else is written for it.                                         *)
(***************************************************************************)
C9_HandlerThrows ==
  \A k \in 1..Len(outcomes) :
    outcomes[k].kind = "throw"
      => LET n == outcomes[k].line
         IN  /\ Cardinality(Answers(n)) = 1
             /\ \A i \in Answers(n) :
                  out[i] = [jsonrpc |-> Str("2.0"), id |-> Request(n).id,
                            error |-> [code |-> -32603,
                                       message |-> <<ThrownText(outcomes[k].value)>>]]

\* a handler threw a string, and the error carries that string
C9_Witness ==
  /\ Len(outcomes) = 1
  /\ outcomes[1].kind = "throw"
  /\ outcomes[1].value = Str("oops")
  /\ Len(out) = 1
  /\ IsError(out[1]) /\ out[1].error.message = <<"oops">>

(***************************************************************************)
(* C10.  A handler that returns a ToolResult is answered with a JSON-RPC   *)
(* result that is the ToolResult as returned: isError true stays true in a *)
(* result, never an error, and a ToolResult without isError gives a result *)
(* without isError.                                                        *)
(***************************************************************************)
C10_ToolResultVerbatim ==
  \A k \in 1..Len(outcomes) :
    outcomes[k].kind = "return"
      => LET n == outcomes[k].line
             r == outcomes[k].value
         IN  /\ Cardinality(Answers(n)) = 1
             /\ \A i \in Answers(n) :
                  /\ IsResult(out[i])
                  /\ out[i].id = Request(n).id
                  /\ out[i].result = r
                  /\ ("isError" \in DOMAIN out[i].result) = ("isError" \in DOMAIN r)

\* a handler returned isError: true, and the result carries it
C10_Witness ==
  /\ Len(outcomes) = 1
  /\ outcomes[1].kind = "return"
  /\ outcomes[1].value = ResultIsError
  /\ Len(out) = 1
  /\ IsResult(out[1]) /\ out[1].result.isError = TRUE

(***************************************************************************)
(* C11.  A request that has an id and whose method is not exactly          *)
(* initialize, tools/list or tools/call (another string, the same word in  *)
(* another case, a value that is not a string, or no method at all) is     *)
(* answered with one error response with code -32601 and the message       *)
(* "Method not found: <method>".                                           *)
(***************************************************************************)
C11_MethodNotFound ==
  \A n \in 1..Len(lines) :
    (IsRequestLine(n) /\ Request(n).method \notin KnownMethods)
      => /\ Cardinality(Answers(n)) = 1
         /\ \A i \in Answers(n) :
              out[i] = [jsonrpc |-> Str("2.0"), id |-> Request(n).id,
                        error |-> [code |-> -32601,
                                   message |-> <<"Method not found: ",
                                                 MethodText(Request(n).method)>>]]
         /\ ~Called(n)

\* tools/list spelled in another case was refused, with tools registered
C11_Witness ==
  /\ lines = <<(<<HeadIdStr0, TailListCase>>)>>
  /\ tools # <<>>
  /\ Len(out) = 1
  /\ IsErrorWith(out[1], -32601)
  /\ out[1].error.message = <<"Method not found: ", "Tools/List">>

(***************************************************************************)
(* C12.  After any sequence of registrations, the tools array of a         *)
(* tools/list response has one entry {name, description, inputSchema} per  *)
(* distinct registered name: its length is the number of distinct names,   *)
(* and the names are in the order of their first registration.  With no    *)
(* registration the array is empty.                                        *)
(***************************************************************************)
C12_ToolsListOnePerName ==
  \A n \in 1..Len(lines) :
    IsRequestFor(n, "tools/list")
      => \A i \in Answers(n) :
           IsResult(out[i])
             => LET ts == out[i].result.tools
                IN  /\ Len(ts) = Cardinality(RegisteredNames)
                    /\ NamesOf(ts) = FirstSeen(registered)
                    /\ \A j \in 1..Len(ts) :
                         DOMAIN ts[j] = {"name", "description", "inputSchema"}
                    /\ registered = <<>> => ts = <<>>

\* three registrations of two names were listed as two entries
C12_Witness ==
  /\ registered = <<"strict", "echo", "strict">>
  /\ lines = <<(<<HeadId0, TailList>>)>>
  /\ Len(out) = 1
  /\ IsResult(out[1])
  /\ NamesOf(out[1].result.tools) = <<"strict", "echo">>

\* nothing was registered and the list is the empty array
C12_WitnessEmpty ==
  /\ registered = <<>>
  /\ lines = <<(<<HeadId0, TailList>>)>>
  /\ Len(out) = 1
  /\ IsResult(out[1])
  /\ out[1].result.tools = <<>>

(***************************************************************************)
(* C13.  Registering a tool under a name that is already registered        *)
(* replaces the whole descriptor, the last registration winning:           *)
(* tools/list then shows the name once, at the place of its first          *)
(* registration, with the description and the schema given last, and       *)
(* tools/call checks the arguments against the schema given last and       *)
(* calls the handler given last, and no other.                             *)
(***************************************************************************)
C13_LastRegistrationWins ==
  \A n \in 1..Len(lines) :
    /\ IsRequestFor(n, "tools/list")
         => \A i \in Answers(n) :
              IsResult(out[i])
                => LET ts == out[i].result.tools
                   IN  /\ NamesOf(ts) = FirstSeen(registered)
                       /\ \A j \in 1..Len(ts) :
                            TimesRegistered(ts[j].name) > 1
                              => /\ ts[j].description = latest[ts[j].name].description
                                 /\ ts[j].inputSchema
                                      = toJSONSchema(latest[ts[j].name].schema).value
    /\ (NamesTool(n) /\ TimesRegistered(Request(n).params.name.val) > 1)
         => LET last == latest[Request(n).params.name.val]
            IN  /\ Called(n) <=> ~FailsSchema(last.schema, Request(n).params.arguments)
                /\ Cardinality(CallsFor(n)) <= 1
                /\ \A k \in CallsFor(n) : calls[k].handler = last.handler

\* echo was registered first and last, with the number tool last: the list
\* shows it first, with the description and the schema of the number tool
C13_Witness ==
  /\ registered = <<"echo", "strict", "echo">>
  /\ latest["echo"].description = "Number tool"
  /\ lines = <<(<<HeadId0, TailList>>)>>
  /\ Len(out) = 1
  /\ IsResult(out[1])
  /\ out[1].result.tools[1].name = "echo"
  /\ out[1].result.tools[1].description = "Number tool"
  /\ DOMAIN out[1].result.tools[1].inputSchema.properties = {"count"}

\* echo was registered twice, with the number tool last: a count is accepted
\* and the handler of the number tool is called
C13_WitnessCall ==
  /\ registered = <<"echo", "echo">>
  /\ latest["echo"].description = "Number tool"
  /\ lines = <<(<<HeadId0, TailCallEchoCount5>>)>>
  /\ Len(calls) = 1
  /\ calls[1].handler = "h5"

(***************************************************************************)
(* C14.  An initialize request, whatever its id, is answered with the      *)
(* result {protocolVersion: "2024-11-05", capabilities: {tools: {}},       *)
(* serverInfo: {name, version}}, name and version being those given to     *)
(* the constructor; the result is the same whatever tools are registered.  *)
(***************************************************************************)
C14_InitializeResult ==
  \A n \in 1..Len(lines) :
    IsRequestFor(n, "initialize")
      => /\ Cardinality(Answers(n)) = 1
         /\ \A i \in Answers(n) :
              out[i] = [jsonrpc |-> Str("2.0"), id |-> Request(n).id,
                        result |-> [protocolVersion |-> "2024-11-05",
                                    capabilities |-> [tools |-> EmptyObject],
                                    serverInfo |-> [name |-> serverInfo.name,
                                                    version |-> serverInfo.version]]]

\* a server constructed as test-server, with tools registered, answered
\* initialize with its own name
C14_Witness ==
  /\ serverInfo.name = "test-server"
  /\ Len(tools) = 2
  /\ lines = <<(<<HeadIdNull, TailInit>>)>>
  /\ Len(out) = 1
  /\ IsResult(out[1])
  /\ out[1].result.serverInfo.name = "test-server"

(***************************************************************************)
(* C15.  A tools/call request whose params have no arguments member is     *)
(* validated as if arguments were the empty object: a tool whose schema    *)
(* accepts {} has its handler called with {}, and a tool whose schema has  *)
(* a required member gets error -32602 and no call.                        *)
(***************************************************************************)
C15_MissingArgumentsAreEmpty ==
  \A n \in 1..Len(lines) :
    (/\ NamesTool(n)
     /\ Request(n).params.arguments.type = "undefined"
     /\ MapHas(tools, Request(n).params.name.val))
      => LET schema == MapGet(tools, Request(n).params.name.val).schema
         IN  IF DOMAIN schema = {}
             THEN /\ Cardinality(CallsFor(n)) = 1
                  /\ \A k \in CallsFor(n) : calls[k].args = EmptyObject
                  /\ \A i \in Answers(n) : ~IsErrorWith(out[i], -32602)
             ELSE /\ ~Called(n)
                  /\ Cardinality(Answers(n)) = 1
                  /\ \A i \in Answers(n) :
                       IsErrorWith(out[i], -32602) /\ out[i].id = Request(n).id

\* the tool without members was called with {} and its result was written
C15_Witness ==
  /\ lines = <<(<<HeadId0, TailCallEcho>>)>>
  /\ MapHas(tools, "echo")
  /\ MapGet(tools, "echo").description = "No args tool"
  /\ Len(calls) = 1
  /\ calls[1].args = EmptyObject
  /\ Len(out) = 1
  /\ IsResult(out[1])

\* the tool with a required member refused the call without arguments
C15_WitnessRequired ==
  /\ lines = <<(<<HeadId0, TailCallEcho>>)>>
  /\ MapHas(tools, "echo")
  /\ MapGet(tools, "echo").description = "Echo tool"
  /\ calls = <<>>
  /\ Len(out) = 1
  /\ IsErrorWith(out[1], -32602)

(***************************************************************************)
(* C16.  A line that is empty, or that holds only whitespace once its      *)
(* trailing carriage return is stripped, is skipped: no message is         *)
(* dispatched for it and no output line is written.                        *)
(***************************************************************************)
C16_BlankLinesSkipped ==
  \A n \in 1..Len(lines) : IsBlank(lines[n]) => Answers(n) = {} /\ ~Called(n)

\* the part that holds: the empty line is skipped
C16_EmptyLinesSkipped ==
  \A n \in 1..Len(lines) : lines[n] = <<>> => Answers(n) = {} /\ ~Called(n)

\* a line holding one space was answered with a parse error
C16_SpaceLineAnswered ==
  /\ Len(lines) >= 1
  /\ lines[1] = <<SP>>
  /\ Len(out) >= 1
  /\ outSrc[1] = 1
  /\ out[1] = [jsonrpc |-> Str("2.0"), id |-> Null,
               error |-> [code |-> -32700, message |-> <<"Parse error">>]]

(***************************************************************************)
(* C17.  The read loop ends if and only if the input stream closes.  It    *)
(* has ended only when the stream is closed, every line of the input has   *)
(* been cut and no handler is pending; before that no message (malformed   *)
(* JSON, JSON of any shape, unknown method, unknown tool, invalid          *)
(* arguments, throwing handler) leaves it unable to go on: it always has a *)
(* line to cut, a chunk to wait for or a handler to wait for, and it does  *)
(* not return while the stream has text left; and once the stream is       *)
(* closed, the buffer holds no line and no handler is pending, start()     *)
(* returns.                                                                *)
(***************************************************************************)
C17_LoopEndsWithTheStream ==
  /\ pc = "done" => /\ stdin = <<>>
                    /\ cur = NoCall
                    /\ Len(lines) = NewlineCount(consumed)
  /\ pc = "scan" => HasNewline(buffer) \/ ENABLED ExitScan
  /\ pc = "await" => cur # NoCall /\ ENABLED HandlerReturn(ResultOk)
  /\ (pc = "read" /\ stdin # <<>>) => ENABLED ReadChunk(1) /\ ~ENABLED EndOfStream
  /\ (pc = "read" /\ stdin = <<>>) => ENABLED EndOfStream

\* start() returned after a line that is not JSON, a refused request and a
\* handler that threw
C17_Witness ==
  /\ pc = "done"
  /\ Len(lines) = 2
  /\ lines[1] \in {<<HeadId0>>, <<HeadId0, TailListCase>>, <<HeadId0, TailCallEcho5>>}
  /\ Len(outcomes) = 1
  /\ outcomes[1].kind = "throw"
  /\ Len(out) = 2

(***************************************************************************)
(* C18.  Every error response written carries one of the codes -32700,     *)
(* -32601, -32602 and -32603.  The code -32600 is never written, not even  *)
(* for a request that has an id and no method, or whose params are not an  *)
(* object.                                                                 *)
(***************************************************************************)
C18_ErrorCodes ==
  \A i \in 1..Len(out) :
    "error" \in DOMAIN out[i]
      => /\ out[i].error.code \in {-32700, -32601, -32602, -32603}
         /\ out[i].error.code # -32600

\* a request with an id and no method was refused with -32601
C18_Witness ==
  /\ lines = <<(<<HeadId0, TailNoMethod>>)>>
  /\ Len(out) = 1
  /\ IsErrorWith(out[1], -32601)

\* a tools/call whose params are a string was refused with -32601
C18_WitnessParams ==
  /\ lines = <<(<<HeadId0, TailCallParamsStr>>)>>
  /\ MapHas(tools, "echo")
  /\ Len(out) = 1
  /\ IsErrorWith(out[1], -32601)

(***************************************************************************)
(* C19.  The dispatcher keeps no state between messages.  The answer to an *)
(* initialize or tools/list request depends on the message and the         *)
(* registry alone: the same request line read twice is answered by two     *)
(* identical output lines.  tools/list and tools/call are served without   *)
(* an initialize before them: tools/list gets its result, and a valid call *)
(* of a registered tool has its handler called.                            *)
(***************************************************************************)
C19_NoStateBetweenMessages ==
  /\ \A n, m \in 1..Len(lines) :
       (/\ n < m
        /\ lines[n] = lines[m]
        /\ IsRequestFor(n, "initialize") \/ IsRequestFor(n, "tools/list"))
         => /\ Cardinality(Answers(n)) = 1
            /\ Cardinality(Answers(m)) = 1
            /\ \A i \in Answers(n), j \in Answers(m) : out[i] = out[j]
  /\ \A n \in 1..Len(lines) :
       (IsRequestFor(n, "tools/list") /\ NoInitializeBefore(n) /\ Representable)
         => /\ Cardinality(Answers(n)) = 1
            /\ \A i \in Answers(n) : IsResult(out[i])
  /\ \A n \in 1..Len(lines) :
       (/\ NamesTool(n)
        /\ NoInitializeBefore(n)
        /\ MapHas(tools, Request(n).params.name.val)
        /\ ~FailsSchema(MapGet(tools, Request(n).params.name.val).schema,
                        Request(n).params.arguments))
         => Called(n)

\* the same tools/list request was read twice and answered twice alike
C19_Witness ==
  /\ lines = <<(<<HeadId0, TailList>>), (<<HeadId0, TailList>>)>>
  /\ Len(out) = 2
  /\ IsResult(out[1])
  /\ out[1] = out[2]

\* tools/list was served before the initialize request that followed it
C19_WitnessOrder ==
  /\ lines = <<(<<HeadId0, TailList>>), (<<HeadId0, TailInit>>)>>
  /\ Len(out) = 2
  /\ IsResult(out[1])
  /\ "tools" \in DOMAIN out[1].result

C21_FetchRejected ==
  \A n \in 1..Len(lines) :
    (Called(n) /\ fetchCall.failedAt = "fetch")
      => /\ AnsweredWithText(n, <<"Error: ", ThrownText(fetchCall.failure)>>, "true")
         /\ fetchCall.pc = "returned"

\* fetch rejected with a string and the result carries the string
C21_Witness ==
  /\ lines = <<(<<HeadId0, TailCallFetch>>)>>
  /\ fetchCall.failedAt = "fetch"
  /\ fetchCall.failure = Str("timeout")
  /\ Len(out) = 1
  /\ IsResult(out[1])
  /\ out[1].result.content[1].text = <<"Error: ", "timeout">>
  /\ out[1].result.isError = TRUE

(***************************************************************************)
(* C22.  After a successful (2xx) fetch the result of the fetch tool is    *)
(* decided by the exit code of the subprocess: with exit code 0 it is the  *)
(* captured standard output, with no isError; with any other exit code it  *)
(* has isError true and the text "Error processing with Claude: " followed *)
(* by the captured standard error.                                         *)
(***************************************************************************)
C22_ExitCodeDecides ==
  \A n \in 1..Len(lines) :
    (/\ Called(n)
     /\ fetchCall.pc = "returned"
     /\ fetchCall.exitCode # -1
     /\ fetchCall.failedAt = "")
      => /\ fetchCall.response.status \in 200..299
         /\ IF fetchCall.exitCode = 0
            THEN AnsweredWithText(n, <<fetchCall.output>>, "absent")
            ELSE AnsweredWithText(n, <<"Error processing with Claude: ", fetchCall.stderr>>,
                                  "true")

\* the subprocess exited with 127 and its standard error is in the error result
C22_Witness ==
  /\ lines = <<(<<HeadId0, TailCallFetch>>)>>
  /\ fetchCall.exitCode = 127
  /\ fetchCall.stderr = "Claude CLI error: API key not found"
  /\ Len(out) = 1
  /\ IsResult(out[1])
  /\ out[1].result.content[1].text
       = <<"Error processing with Claude: ", "Claude CLI error: API key not found">>
  /\ out[1].result.isError = TRUE

\* the subprocess exited with 0 and its standard output is the result
C22_WitnessSuccess ==
  /\ lines = <<(<<HeadId0, TailCallFetch>>)>>
  /\ fetchCall.exitCode = 0
  /\ Len(out) = 1
  /\ out[1].result = [content |-> <<[type |-> "text",
                                     text |-> <<"AI analysis of the page content">>]>>]

(***************************************************************************)
(* C23.  The page content the fetch tool puts in the prompt of the         *)
(* subprocess is the HTML-to-Markdown conversion of the response body if   *)
(* and only if the content type of the response is classified as HTML;     *)
(* for every other content type, and with no content-type header, it is    *)
(* the body unmodified.                                                    *)
(***************************************************************************)
C23_ConvertedIffHtml ==
  \A k \in 1..Len(fetchCall.spawns) :
    LET response == fetchCall.response
        prompt == fetchCall.spawns[k]
    IN  /\ Len(prompt) = 4
        /\ prompt[1] = "<page_content>\n"
        /\ prompt[3] = "\n</page_content>\n\n"
        /\ prompt[4] = "Read"
        /\ prompt[2] = IF response.contentType \in HtmlTypes
                       THEN htmlToMarkdown(response.body)
                       ELSE response.body

\* an HTML body sent as Text/HTML; charset=utf-8 went to the subprocess as Markdown
C23_Witness ==
  /\ Len(fetchCall.spawns) = 1
  /\ fetchCall.response.contentType = Header(<<"Text/HTML", "; charset=utf-8">>)
  /\ fetchCall.response.body = "<h1>Hello</h1>"
  /\ fetchCall.spawns[1][2] = "# Hello"

\* an HTML body sent with no content type went to the subprocess as it was
C23_WitnessUnmodified ==
  /\ Len(fetchCall.spawns) = 1
  /\ fetchCall.response.contentType = HeaderAbsent
  /\ fetchCall.response.body = "<h1>Hello</h1>"
  /\ fetchCall.spawns[1][2] = "<h1>Hello</h1>"

(***************************************************************************)
(* C24.  isHtmlContentType returns true exactly when its argument is a     *)
(* non-empty string that, compared without regard to case, contains        *)
(* "text/html" or "application/xhtml+xml", whatever parameters surround    *)
(* it; it returns false for null and for every other value.  The           *)
(* classifier is applied to the content type of every response whose body  *)
(* was read, and the body of an HTML page is converted on its verdict.     *)
(***************************************************************************)
C24_ClassifiesHtml ==
  Len(fetchCall.spawns) > 0 =>
    LET contentType == fetchCall.response.contentType
        html == \/ ContainsIgnoringCase(contentType, "text/html")
                \/ ContainsIgnoringCase(contentType, "application/xhtml+xml")
    IN  /\ isHtmlContentType(contentType) = html
        /\ fetchCall.response.body = "<h1>Hello</h1>"
             => (fetchCall.spawns[1][2] = "# Hello") = html

\* a page sent as TEXT/HTML was classified as HTML and converted
C24_Witness ==
  /\ Len(fetchCall.spawns) = 1
  /\ fetchCall.response.contentType = Header(<<"TEXT/HTML">>)
  /\ fetchCall.response.body = "<h1>Hello</h1>"
  /\ isHtmlContentType(fetchCall.response.contentType)
  /\ fetchCall.spawns[1][2] = "# Hello"

\* a page sent with the empty string as content type was not
C24_WitnessEmpty ==
  /\ Len(fetchCall.spawns) = 1
  /\ fetchCall.response.contentType = Header(<<>>)
  /\ fetchCall.response.body = "<h1>Hello</h1>"
  /\ ~isHtmlContentType(fetchCall.response.contentType)
  /\ fetchCall.spawns[1][2] = "<h1>Hello</h1>"

\* line n is a tools/call request for the fetch tool whose arguments are an
\* object without the member
FetchCallWithout(n, member) ==
  /\ NamesTool(n)
  /\ Request(n).params.name.val = "fetch"
  /\ Request(n).params.arguments.type = "object"
  /\ member \notin DOMAIN Request(n).params.arguments.props

C25_WitnessNoPrompt ==
  /\ lines = <<(<<HeadId0, TailCallFetchNoPrompt>>)>>
  /\ calls = <<>>
  /\ Len(out) = 1
  /\ IsErrorWith(out[1], -32602)
  /\ fetchCall = FetchIdle

(***************************************************************************)
(* C26.  The prompt parameter of the fetch tool is optional: a tools/call  *)
(* request to fetch that gives a url and no prompt passes validation, the  *)
(* handler is called and it fetches the URL; the request is not answered   *)
(* with error -32602.                                                      *)
(***************************************************************************)
C26_PromptOptional ==
  \A n \in 1..Len(lines) :
    (FetchCallWithout(n, "prompt") /\ ~FetchCallWithout(n, "url"))
      => /\ Called(n)
         /\ \A i \in Answers(n) : ~IsErrorWith(out[i], -32602)
         /\ Finished(n) => Len(fetchCall.requests) = 1

\* the calls whose handler has neither returned nor thrown yet
InFlight == {k \in 1..Len(calls) : \A j \in 1..Len(outcomes) : outcomes[j].line # calls[k].line}

(***************************************************************************)
(* C27.  The read loop handles one message at a time.  At most one tool    *)
(* handler is in flight; while one is, the loop waits for it and cuts no   *)
(* line; and when a line is cut, whether it came in the chunk of the line  *)
(* before it or in a later one, the handling of every line before it is    *)
(* over: its handler has returned or thrown and its response is written.   *)
(***************************************************************************)
C27_OneMessageAtATime ==
  /\ Cardinality(InFlight) <= 1
  /\ \A k \in InFlight : /\ pc = "await"
                         /\ cur # NoCall /\ cur.line = calls[k].line
                         /\ calls[k].line = Len(lines)
                         /\ Answers(calls[k].line) = {}
  /\ \A m \in 1..(Len(lines) - 1) :
       /\ Finished(m)
       /\ Called(m) => \E j \in 1..Len(outcomes) : outcomes[j].line = m
       /\ IsRequestLine(m) => Answers(m) # {}
       /\ \A i \in Answers(m) : \A j \in Answers(m + 1) : i < j

\* two calls were read; the second line was cut after the handler of the first
\* had returned and its response was written, and its own handler is in flight
C27_Witness ==
  /\ Len(lines) = 2
  /\ Len(calls) = 2
  /\ InFlight = {2}
  /\ pc = "await"
  /\ Len(outcomes) = 1 /\ outcomes[1].line = 1
  /\ Len(out) = 1 /\ outSrc = <<1>>
  /\ NewlineCount(consumed) = 2
  /\ stdin = <<>>

\* a handler is in flight while the chunk that ended its line has left a whole
\* line in the buffer, which is not cut
C27_WitnessWaiting ==
  /\ InFlight = {1}
  /\ pc = "await"
  /\ HasNewline(buffer)
  /\ Len(lines) = 1
  /\ out = <<>>

\* line n is a tools/call request that names a registered tool with arguments
\* its schema accepts
ValidCall(n) ==
  /\ NamesTool(n)
  /\ MapHas(tools, Request(n).params.name.val)
  /\ ~FailsSchema(MapGet(tools, Request(n).params.name.val).schema,
                  Request(n).params.arguments)

(***************************************************************************)
(* C28.  A tool handler is invoked exactly once for a tools/call request   *)
(* that names a registered tool with arguments that pass its schema, and   *)
(* the handler invoked is that of the tool named.  No handler is invoked   *)
(* otherwise: not for a notification whose method is tools/call, not for   *)
(* an unknown tool, not when validation fails, and not for any other       *)
(* method or any other line.                                               *)
(***************************************************************************)
C28_HandlerCalledOnceWhenValid ==
  /\ \A n \in 1..Len(lines) :
       IF ValidCall(n)
       THEN /\ Cardinality(CallsFor(n)) = 1
            /\ \A k \in CallsFor(n) :
                 /\ calls[k].name = Request(n).params.name.val
                 /\ calls[k].handler = MapGet(tools, calls[k].name).handler
       ELSE CallsFor(n) = {}
  /\ \A k \in 1..Len(calls) : calls[k].line \in 1..Len(lines)

\* the echo tool was called once for a valid request, and its handler returned
C28_Witness ==
  /\ lines = <<(<<HeadIdStr0, TailCallEchoHi>>)>>
  /\ ValidCall(1)
  /\ Len(calls) = 1
  /\ calls[1].name = "echo"
  /\ Len(outcomes) = 1
  /\ Len(out) = 1

\* a notification that names a registered tool with valid arguments: no call
C28_WitnessNotification ==
  /\ pc = "done"
  /\ lines = <<(<<HeadNoId, TailCallEchoHi>>)>>
  /\ MapHas(tools, "echo")
  /\ ~FailsSchema(MapGet(tools, "echo").schema, JsonParse(lines[1]).value.params.arguments)
  /\ calls = <<>>

(***************************************************************************)
(* C29.  A response with code -32700 is written only for a line that is    *)
(* not JSON: a line that parses as JSON, be it an object, an array, a      *)
(* number, a string, a boolean or null, never gets a -32700 response, and  *)
(* a failure in the handling of a parsed request is never reported with    *)
(* id null: an error response to a line that parses carries the id of its  *)
(* request.                                                                *)
(***************************************************************************)
C29_ParseErrorOnlyForBadJson ==
  \A i \in 1..Len(out) :
    LET n == outSrc[i]
    IN  JsonParse(lines[n]).ok
          => /\ ~IsErrorWith(out[i], -32700)
             /\ IsError(out[i]) => /\ IsRequestLine(n)
                                   /\ out[i].id = Request(n).id

\* the line null, which is JSON, was answered with -32700 and id null
C29_NullAnswered ==
  /\ lines = <<(<<DocNull>>)>>
  /\ JsonParse(lines[1]).ok
  /\ out = <<respondError(Null, PARSE_ERROR, <<"Parse error">>)>>

\* a tools/list request with id 0 was answered with -32700 and id null
C29_ListAnswered ==
  /\ lines = <<(<<HeadId0, TailList>>)>>
  /\ ~Representable
  /\ out = <<respondError(Null, PARSE_ERROR, <<"Parse error">>)>>

\* the lines cut so far that are not empty
NonEmptyLines == {n \in 1..Len(lines) : lines[n] # <<>>}

(***************************************************************************)
(* C30.  Each non-empty newline-terminated input line causes at most one   *)
(* output line: in every state the number of lines written is at most the  *)
(* number of non-empty lines cut from the input, every line written        *)
(* answers a non-empty line that was cut, and no line is answered twice,   *)
(* for example by a response followed by a -32700 error.                   *)
(***************************************************************************)
C30_AtMostOneLinePerLine ==
  /\ Len(out) <= Cardinality(NonEmptyLines)
  /\ Len(outSrc) = Len(out)
  /\ \A i \in 1..Len(out) : outSrc[i] \in NonEmptyLines
  /\ \A n \in 1..Len(lines) : Cardinality(Answers(n)) <= 1

\* an empty line and a refused request gave one output line
C30_Witness ==
  /\ pc = "done"
  /\ Len(lines) = 2
  /\ lines[1] = <<>>
  /\ lines[2] \in LoopRefused
  /\ Len(out) = 1
  /\ outSrc = <<2>>

\* two requests, the second with a handler that threw, gave two output lines
C30_WitnessEach ==
  /\ pc = "done"
  /\ Len(lines) = 2
  /\ NonEmptyLines = {1, 2}
  /\ Len(outcomes) = 1 /\ outcomes[1].kind = "throw" /\ outcomes[1].line = 2
  /\ outSrc = <<1, 2>>

RECURSIVE RawLinesOf(_)
\* the texts before each newline of a text, as they stand
RawLinesOf(text) ==
  IF ~HasNewline(text) THEN <<>>
  ELSE <<SubSeq(text, 1, FirstNewline(text) - 1)>>
         \o RawLinesOf(SubSeq(text, FirstNewline(text) + 1, Len(text)))

\* the text read before the n-th newline, after the newline before it
RawLine(n) == RawLinesOf(consumed)[n]

\* what was written for line n, in order
AnswerLines(n) == SelectSeq([i \in 1..Len(out) |-> [src |-> outSrc[i], line |-> out[i]]],
                            LAMBDA a : a.src = n)

(***************************************************************************)
(* C31.  A line terminated by "\r\n" is dispatched exactly as the same     *)
(* line terminated by "\n", wherever the chunks end: the same handler call *)
(* is made or the same lines are written.  Exactly one trailing carriage   *)
(* return is removed from the text before the newline; the text after the  *)
(* newline becomes the new buffer; and when the loop goes back to wait for *)
(* a chunk the buffer holds no newline, and is the text read since the     *)
(* last newline.                                                           *)
(***************************************************************************)
C31_CarriageReturnNewline ==
  /\ \A n \in 1..Len(lines) :
       /\ n <= Len(RawLinesOf(consumed))
       /\ lines[n] = IF RawLine(n) # <<>> /\ RawLine(n)[Len(RawLine(n))] = CR
                     THEN SubSeq(RawLine(n), 1, Len(RawLine(n)) - 1)
                     ELSE RawLine(n)
  /\ \A n, m \in 1..Len(lines) :
       RawLine(n) = RawLine(m) \o <<CR>>
         => /\ Called(n) = Called(m)
            /\ \A j \in CallsFor(n) : \A k \in CallsFor(m) :
                 [calls[j] EXCEPT !.line = 0] = [calls[k] EXCEPT !.line = 0]
            /\ ~Called(n) => Len(AnswerLines(n)) = Len(AnswerLines(m))
                              /\ \A i \in 1..Len(AnswerLines(n)) :
                                   AnswerLines(n)[i].line = AnswerLines(m)[i].line
  /\ Len(lines) + NewlineCount(buffer) = NewlineCount(consumed)
  /\ pc \in {"read", "done"} => ~HasNewline(buffer) /\ buffer = RestOf(consumed)

\* the part that holds: the same, for every line but the one that is a single
\* carriage return
C31_ExceptLoneCarriageReturn ==
  /\ \A n \in 1..Len(lines) :
       /\ n <= Len(RawLinesOf(consumed))
       /\ lines[n] = IF RawLine(n) # <<>> /\ RawLine(n)[Len(RawLine(n))] = CR
                     THEN SubSeq(RawLine(n), 1, Len(RawLine(n)) - 1)
                     ELSE RawLine(n)
  /\ \A n, m \in 1..Len(lines) :
       (RawLine(n) = RawLine(m) \o <<CR>> /\ RawLine(m) # <<CR>>)
         => /\ Called(n) = Called(m)
            /\ \A j \in CallsFor(n) : \A k \in CallsFor(m) :
                 [calls[j] EXCEPT !.line = 0] = [calls[k] EXCEPT !.line = 0]
            /\ ~Called(n) => Len(AnswerLines(n)) = Len(AnswerLines(m))
                              /\ \A i \in 1..Len(AnswerLines(n)) :
                                   AnswerLines(n)[i].line = AnswerLines(m)[i].line
  /\ Len(lines) + NewlineCount(buffer) = NewlineCount(consumed)
  /\ pc \in {"read", "done"} => ~HasNewline(buffer) /\ buffer = RestOf(consumed)

\* the same request was read with "\n" and then with "\r\n" after it, and the
\* two were answered by the same line
C31_Witness ==
  /\ pc = "done"
  /\ RawLinesOf(consumed) = <<(<<HeadId0, TailList>>), (<<HeadId0, TailList, CR>>)>>
  /\ lines = <<(<<HeadId0, TailList>>), (<<HeadId0, TailList>>)>>
  /\ Len(out) = 2
  /\ IsResult(out[1])
  /\ out[1] = out[2]

\* a chunk ended between the carriage return and the newline of a call, and
\* the call was made with the arguments of the line
C31_WitnessSplit ==
  /\ pc = "await"
  /\ consumed = <<HeadIdStr0, TailCallEchoHi, CR, NL>>
  /\ lines = <<(<<HeadIdStr0, TailCallEchoHi>>)>>
  /\ Len(calls) = 1
  /\ calls[1].name = "echo"
  /\ buffer = <<>>

\* the line that is one carriage return was read with "\n" and then with
\* "\r\n": the first was skipped as empty, the second lost one carriage
\* return, was not empty, and was answered as text that is not JSON
C31_LoneCarriageReturn ==
  /\ pc = "done"
  /\ RawLinesOf(consumed) = <<(<<CR>>), (<<CR, CR>>)>>
  /\ lines = <<(<<>>), (<<CR>>)>>
  /\ outSrc = <<2>>
  /\ IsErrorWith(out[1], -32700)

(***************************************************************************)
(* C32.  When the input ends while the buffer holds a non-empty final line *)
(* with no newline after it, be it a complete and valid request, that line *)
(* is never dispatched and nothing is written for it: no line is ever cut  *)
(* but at a newline, every call and every output line belongs to a line    *)
(* that was cut, and when start() has returned the lines cut are as many   *)
(* as the newlines of the input and the text after the last newline is     *)
(* still in the buffer.                                                    *)
(***************************************************************************)
C32_UnterminatedLineDropped ==
  /\ Len(lines) <= NewlineCount(consumed)
  /\ \A i \in 1..Len(out) : outSrc[i] \in 1..Len(lines)
  /\ \A k \in 1..Len(calls) : calls[k].line \in 1..Len(lines)
  /\ pc = "done" => /\ stdin = <<>>
                    /\ Len(lines) = NewlineCount(consumed)
                    /\ buffer = RestOf(consumed)
                    /\ Len(out) <= NewlineCount(consumed)

\* the input was one tools/list request with no newline: start() returned
\* with the request in the buffer and nothing written
C32_Witness ==
  /\ pc = "done"
  /\ consumed = <<HeadId0, TailList>>
  /\ buffer = <<HeadId0, TailList>>
  /\ lines = <<>>
  /\ out = <<>>
  /\ calls = <<>>

\* the same after a line that was answered
C32_WitnessAfterLine ==
  /\ pc = "done"
  /\ consumed = <<HeadId0, TailList, NL, HeadId0, TailList>>
  /\ buffer = <<HeadId0, TailList>>
  /\ Len(lines) = 1
  /\ Len(out) = 1

\* the n-th newline-terminated line of the whole input is a request
RequestInInput(n) ==
  LET all == LinesOf(consumed \o stdin)
      parsed == JsonParse(all[n])
  IN  /\ n <= Len(all)
      /\ parsed.ok
      /\ parsed.value.type = "object"
      /\ parsed.value.id.type # "undefined"

(***************************************************************************)
(* C33.  When every handler that is called settles, every newline-         *)
(* terminated request line of the input is eventually answered.  While a   *)
(* handler is in flight nothing moves but that handler: no line is cut and *)
(* nothing is written until it returns or throws, so that a handler that   *)
(* never settles keeps every later line from being dispatched and every    *)
(* later response from being written; nothing in the loop times it out.    *)
(***************************************************************************)
C33_AnsweredIfHandlersSettle ==
  /\ \A n \in 1..MaxLines : [](RequestInInput(n) => <>(Answers(n) # {}))
  /\ [][InFlight # {} => /\ lines' = lines
                         /\ calls' = calls
                         /\ out' # out => Len(outcomes') = Len(outcomes) + 1]_vars

\* the handler of the first line threw, and the second line was answered
C33_Witness ==
  /\ Len(lines) = 2
  /\ Len(outcomes) = 1
  /\ outcomes[1].line = 1 /\ outcomes[1].kind = "throw"
  /\ IsRequestLine(2)
  /\ Answers(1) # {}
  /\ Answers(2) # {}

\* a handler is in flight for the first line while the second line, complete,
\* is held in the input, and nothing is written
C33_WitnessHeld ==
  /\ InFlight = {1}
  /\ Len(lines) = 1
  /\ RequestInInput(2)
  /\ out = <<>>

\* the guard written out in SpecLive is the enabling condition of ScanLine
ScanLineGuard == ScanLineEnabled <=> ENABLED <<ScanLine>>_vars

\* the registry holds each registered name once, in the order of the first
\* registrations, with the descriptor registered last
RegistryAsRegistered ==
  /\ NamesOf(tools) = FirstSeen(registered)
  /\ \A i \in 1..Len(tools) : tools[i].tool = latest[tools[i].name]

(***************************************************************************)
(* C34.  Handling a message, be it a notification or a request, of any     *)
(* method and with any outcome, leaves the registry and the name and       *)
(* version of the server as they were: no step of start() changes the      *)
(* registered names, their order or their descriptors, nor the server      *)
(* info, which are at every moment what the registrations and the          *)
(* constructor made them.                                                  *)
(***************************************************************************)
C34_DispatchLeavesRegistry ==
  /\ [](RegistryAsRegistered)
  /\ [][/\ serverInfo' = serverInfo
        /\ pc # "setup" => tools' = tools /\ registered' = registered]_vars

\* a call of a tool registered twice was handled and its handler returned; the
\* registry is what the registrations made it
C34_Witness ==
  /\ pc = "done"
  /\ registered = <<"echo", "strict", "echo">>
  /\ NamesOf(tools) = <<"echo", "strict">>
  /\ Len(calls) = 1
  /\ calls[1].name = "echo"
  /\ Len(outcomes) = 1
  /\ outcomes[1].kind = "return"
  /\ MapGet(tools, "echo") = latest["echo"]

(***************************************************************************)
(* C35.  The handler of the fetch tool never throws.  Whichever step       *)
(* fails, the HTTP request, the read of the body, the HTML conversion, the *)
(* start of the subprocess or the read of its output, a tools/call to      *)
(* fetch with valid arguments is answered with one JSON-RPC result, which  *)
(* carries isError true and the text "Error: " followed by the message of  *)
(* what was thrown; no line with error code -32603 is written.             *)
(***************************************************************************)
C35_FetchNeverThrows ==
  /\ \A i \in 1..Len(out) : ~IsErrorWith(out[i], -32603)
  /\ \A k \in 1..Len(outcomes) : outcomes[k].kind = "return"
  /\ \A n \in 1..Len(lines) :
       Called(n)
         => /\ fetchCall.pc = "returned"
                 => /\ Cardinality(Answers(n)) = 1
                    /\ \A i \in Answers(n) : IsResult(out[i]) /\ out[i].id = Request(n).id
            /\ fetchCall.failedAt # ""
                 => /\ fetchCall.pc = "returned"
                    /\ AnsweredWithText(n, <<"Error: ", ThrownText(fetchCall.failure)>>, "true")

\* Bun.spawn threw, and the call was answered with a result
C35_Witness ==
  /\ Len(calls) = 1
  /\ fetchCall.failedAt = "spawn"
  /\ fetchCall.failure \in SpawnErrors
  /\ Len(out) = 1
  /\ IsResult(out[1])
  /\ out[1].result.isError = TRUE

\* the conversion of an HTML body threw, and the call was answered with a result
C35_WitnessConversion ==
  /\ Len(calls) = 1
  /\ fetchCall.failedAt = "convert"
  /\ fetchCall.spawns = <<>>
  /\ Len(out) = 1
  /\ IsResult(out[1])
  /\ out[1].result.content[1].text = <<"Error: ", "Conversion failed">>

\* the read of the standard output failed with a value that is not an Error
C35_WitnessOutput ==
  /\ Len(calls) = 1
  /\ fetchCall.failedAt = "output"
  /\ fetchCall.failure = Str("timeout")
  /\ Len(out) = 1
  /\ IsResult(out[1])
  /\ out[1].result.content[1].text = <<"Error: ", "timeout">>

(***************************************************************************)
(* C36.  The fetch tool starts the subprocess only after the HTTP request  *)
(* has returned a 2xx status and the body has been read: the prompt given  *)
(* to the subprocess holds that body, as it is or converted.  When the     *)
(* request fails or returns another status, or the read of the body or     *)
(* its conversion fails, no subprocess is started for the call.  At most   *)
(* one request is made and at most one subprocess is started per call.     *)
(***************************************************************************)
C36_SubprocessAfterBody ==
  /\ Len(fetchCall.requests) <= 1
  /\ Len(fetchCall.spawns) <= 1
  /\ Len(fetchCall.spawns) <= Len(calls)
  /\ fetchCall.spawns # <<>>
       => /\ Len(fetchCall.requests) = 1
          /\ fetchCall.response # NoResponse
          /\ fetchCall.response.status \in 200..299
          /\ fetchCall.pc \notin {"idle", "fetch", "text"}
          /\ fetchCall.spawns[1][2]
               \in {fetchCall.response.body, htmlToMarkdown(fetchCall.response.body)}
  /\ (\/ fetchCall.pc \in {"idle", "fetch", "text"}
      \/ fetchCall.failedAt \in {"fetch", "text", "convert", "spawn"}
      \/ fetchCall.response = NoResponse
      \/ fetchCall.response.status \notin 200..299)
       => fetchCall.spawns = <<>>

\* the request returned 404: the call is answered and no subprocess was started
C36_Witness ==
  /\ fetchCall.pc = "returned"
  /\ fetchCall.response # NoResponse
  /\ fetchCall.response.status = 404
  /\ Len(fetchCall.requests) = 1
  /\ fetchCall.spawns = <<>>
  /\ Len(out) = 1

\* the request returned 200 and one subprocess was started with the body
C36_WitnessStarted ==
  /\ fetchCall.pc = "returned"
  /\ fetchCall.response # NoResponse
  /\ fetchCall.response.status = 200
  /\ Len(fetchCall.spawns) = 1
  /\ fetchCall.spawns[1][2] = "{\"key\": \"value\"}"
  /\ fetchCall.exitCode = 0

====
